---- MODULE Spec2Model ----
(***************************************************************************)
(* Feature structures, unification and the unification semiring of         *)
(* HornMorpho 2.5 (l3/morpho/fs.py, l3/morpho/semiring.py).                *)
(*                                                                         *)
(* Two views of a FeatStruct are used.  Pure functions (simple_unify,      *)
(* unify_dicts, FSSet.unify) are computed on feature-structure VALUES:     *)
(* records [feats, types, frozen] whose feature values are atoms or        *)
(* nested records.  Operations whose effect depends on object identity     *)
(* (mutation, freezing, copying) run on a small HEAP of objects.           *)
(***************************************************************************)
EXTENDS Integers, FiniteSets, Sequences, TLC

(***************************************************************************)
(* Bounds                                                                  *)
(***************************************************************************)
\* largest number of features (nested ones included) of an operand of unify
MaxSize == 3
\* largest number of members of an FSSet operand
MaxSetCard == 2
\* number of object ids of the heap
MaxObjs == 4
\* number of heap operations in one run
MaxSteps == 6
\* depth of the call stack at which Python raises RecursionError, scaled
RecursionLimit == 12
\* largest number of feature-value items of a literal given to FSSet.parse
MaxItems == 2
\* number of 'Something wrong' lines after which a run is cut off
MaxPrints == 2
\* lines of a cascade description
MaxLines == 3
\* lines of a morphotactic description
MaxMtax == 4
\* calls of load_lang, get_language and get_pos
MaxCalls == 3

(***************************************************************************)
(* Feature-structure values                                                *)
(***************************************************************************)
\* feature names of a top-level structure and of a nested one
TopNames == {"tense", "subj"}
SubNames == {"num", "gen"}
\* atomic feature values: two ordinary symbols, and 'nil', which the
\* language modules store as a feature value (ti_lang.py fs['pp'] = 'nil')
Atoms == {"past", "present", "nil"}

Atom(v) == [atom |-> v]
IsFS(v) == "feats" \in DOMAIN v

EmptyFeats == [k \in {} |-> Atom("nil")]

\* FeatStruct(): no features, no types, not frozen
NewFeatStruct == [feats |-> EmptyFeats, types |-> {}, frozen |-> FALSE]

\* FeatStruct(features): a structure holding the feature map fm
MkFS(fm) == [feats |-> fm, types |-> {}, frozen |-> FALSE]

\* the strings 'fail' and 'nil' that unification uses as sentinels
Fail == Atom("fail")
Nil == Atom("nil")

\* x.keys()
Keys(x) == DOMAIN x.feats

\* x.get(k, default)
Get(x, k, default) == IF k \in Keys(x) THEN x.feats[k] ELSE default

\* FeatStruct._equal / __eq__ on values, and == between arbitrary feature
\* values: two structures are equal when they have equal type sets, the same
\* feature names and equal values; a structure never equals a non-structure.
RECURSIVE PyEq(_, _)
PyEq(x, y) ==
    IF IsFS(x) /\ IsFS(y)
    THEN /\ \A s \in x.types : \E t \in y.types : PyEq(s, t)
         /\ \A t \in y.types : \E s \in x.types : PyEq(s, t)
         /\ Keys(x) = Keys(y)
         /\ \A k \in Keys(x) : PyEq(x.feats[k], y.feats[k])
    ELSE IF IsFS(x) \/ IsFS(y)
    THEN FALSE
    ELSE x.atom = y.atom

\* FeatStruct.freeze / _freeze on a value: a structure that is already
\* frozen is returned as it is; otherwise the structure and every structure
\* nested in it is marked frozen (type parents are not visited).
RECURSIVE freezeAll(_)
freezeAll(x) ==
    IF IsFS(x)
    THEN [x EXCEPT !.frozen = TRUE,
                   !.feats = [k \in Keys(x) |-> freezeAll(x.feats[k])]]
    ELSE x

freeze(x) == IF x.frozen THEN x ELSE freezeAll(x)

\* FeatStruct.add_type on a value: the parent is frozen and added
add_type(x, tp) == [x EXCEPT !.types = @ \cup {freeze(tp)}]

(***************************************************************************)
(* Simple unification (fs.py, "Simple unification (no variables)")         *)
(***************************************************************************)
RECURSIVE simple_unify(_, _)
RECURSIVE unify_dicts(_, _)

\* what one pass of the loop of unify_dicts does for key k: the value it
\* stores in the result, 'fail' when the two values do not unify, or no
\* assignment at all (Unset)
Unset == [unset |-> TRUE]

unify_key(x, y, k) ==
    LET x_val == Get(x, k, Nil)
        y_val == Get(y, k, Nil)
    IN  IF ~PyEq(x_val, Nil)
        THEN IF ~PyEq(y_val, Nil)
             THEN simple_unify(x_val, y_val)
             ELSE x_val
        ELSE IF ~PyEq(y_val, Nil)
             THEN y_val
             ELSE Unset

\* the keys at which the loop of unify_dicts returns 'fail'
fail_keys(x, y) ==
    {k \in Keys(x) \cup Keys(y) :
        /\ ~PyEq(Get(x, k, Nil), Nil)
        /\ ~PyEq(Get(y, k, Nil), Nil)
        /\ PyEq(simple_unify(Get(x, k, Nil), Get(y, k, Nil)), Fail)}

unify_dicts(x, y) ==
    IF fail_keys(x, y) # {}
    THEN Fail
    ELSE LET set_keys == {k \in Keys(x) \cup Keys(y) : unify_key(x, y, k) # Unset}
         IN  [NewFeatStruct EXCEPT !.feats = [k \in set_keys |-> unify_key(x, y, k)]]

\* mutant: a conflict is resolved in favour of the first operand
simple_unify_first_wins(x, y) ==
    IF PyEq(x, y) THEN x
    ELSE IF IsFS(x) /\ IsFS(y) THEN unify_dicts(x, y)
    ELSE x

\* mutant: equal structures are merged key by key like unequal ones
simple_unify_no_shortcut(x, y) ==
    IF IsFS(x) /\ IsFS(y) THEN unify_dicts(x, y)
    ELSE IF PyEq(x, y) THEN x
    ELSE Fail

\* mutant: an operand that is not a structure gives way to the other one
simple_unify_skip_missing(x, y) ==
    IF PyEq(x, y) THEN x
    ELSE IF IsFS(x) /\ IsFS(y) THEN unify_dicts(x, y)
    ELSE IF IsFS(y) THEN y
    ELSE IF IsFS(x) THEN x
    ELSE Fail

simple_unify(x, y) ==
    IF PyEq(x, y) THEN x
    ELSE IF IsFS(x) /\ IsFS(y) THEN unify_dicts(x, y)
    ELSE Fail

(***************************************************************************)
(* FSSet (semiring.py): sets of frozen feature structures                  *)
(***************************************************************************)
\* mutant: the constructor stores the items without freezing them
FSSet_init_no_freeze(items) == items

\* FSSet(*items): every item is frozen, then stored in the set
FSSet_init(items) == {freeze(i) : i \in items}

\* TOP = FeatStruct('[]'); TOP.freeze(); TOPFSS = FSSet(TOP)
TOP == freeze(NewFeatStruct)
TOPFSS == FSSet_init({TOP})

\* utils.every(predicate, seq): every element of seq satisfies predicate
\* (predicate is given as a function on the elements of seq)
every(predicate, seq) == \A e \in seq : predicate[e]

\* the list result1 of FSSet.unify, as the set of its elements
result1(s, fs2) == {simple_unify(f1, f2) : f1 \in s, f2 \in fs2}

\* FSSet.unify(self, fs2)
FSSet_unify(s, fs2) ==
    LET IsTop == [r \in result1(s, fs2) |-> PyEq(r, TOP)]
    IN  IF every(IsTop, result1(s, fs2))
        THEN TOPFSS
        ELSE FSSet_init({r \in result1(s, fs2) : ~PyEq(r, Fail)})

\* FeatStruct.copy() / __deepcopy__ on a value: new unfrozen structures at
\* every level, the type parents are taken over as they are
RECURSIVE copy(_)
copy(x) ==
    IF IsFS(x)
    THEN [feats |-> [k \in Keys(x) |-> copy(x.feats[k])],
          types |-> x.types,
          frozen |-> FALSE]
    ELSE x

\* FeatStruct.update(features) on an unfrozen value: self[key] = val for
\* every item of features
update(x, features) ==
    [x EXCEPT !.feats = [k \in Keys(x) \cup Keys(features) |->
                            IF k \in Keys(features) THEN features.feats[k]
                            ELSE x.feats[k]]]

\* FSSet.update(fsset, feats)
FSSet_update(fsset, feats) ==
    FSSet_init({update(copy(feats), fs) : fs \in fsset})

\* FSSet.cast(obj) for an obj that is a FeatStruct or neither a FeatStruct,
\* an FSSet nor a string
FSSet_cast(obj) == IF IsFS(obj) THEN FSSet_init({obj}) ELSE TOPFSS

(***************************************************************************)
(* Inheritance (fs.py, inherit / _inherit / _inherit_feature_values)       *)
(***************************************************************************)
\* an exception that leaves a call
Raise(e) == [exc |-> e]
IsRaise(v) == "exc" \in DOMAIN v

\* the value None
PyNone == Atom("None")

\* the names fs.py binds at module level: its imports, its def and class
\* statements and its assignments
fs_globals ==
    {"re", "copy", "Variable", "Expression", "SubstituteBindingsI",
     "LogicParser", "internals", "FSHier", "is_anc", "merge_types",
     "inherit_all", "inherit", "_inherit", "_inherit_feature_values",
     "_trace_inherit_start", "_trace_inherit_succeed",
     "_trace_inherit_bindings", "FeatStruct", "FeatureList", "Feature",
     "SlashFeature", "RangeFeature", "SLASH", "TYPE", "FeatStructParser",
     "SubstituteBindingsSequence", "FeatureValueTuple", "FeatureValueSet",
     "FeatureValueUnion", "FeatureValueConcat", "simple_unify", "unify_dicts"}

\* a call f(...) of a global name from a function of fs.py: NameError when
\* the module does not bind f, otherwise the value v of the call
call_global(f, v) == IF f \in fs_globals THEN v ELSE Raise("NameError")

\* sorted(anc.items()) visits the feature names in this order
sorted_names == <<"gen", "num", "subj", "tense">>

\* child[fname] = value (FeatStruct.__setitem__ with a feature name)
set_feature(child, fname, value) ==
    IF child.frozen THEN Raise("ValueError")
    ELSE [child EXCEPT !.feats = [k \in Keys(child) \cup {fname} |->
                                     IF k = fname THEN value ELSE child.feats[k]]]

RECURSIVE inherit(_, _, _)
RECURSIVE _inherit(_, _)

\* the loop of inherit_all over the type parents tps that are left
RECURSIVE inherit_all_loop(_, _)
inherit_all_loop(result, tps) ==
    IF IsRaise(result) \/ tps = {} THEN result
    ELSE LET tp == CHOOSE t \in tps : TRUE
         IN  inherit_all_loop(inherit(result, tp, TRUE), tps \ {tp})

inherit_all(child) ==
    IF ~IsFS(child) THEN child ELSE inherit_all_loop(child, child.types)

\* two structures are inherited recursively, otherwise fval1 is the result;
\* a result that is a structure is normalised with _apply_forwards
_inherit_feature_values(fval1, fval2) ==
    LET result == IF IsFS(fval1) /\ IsFS(fval2)
                  THEN _inherit(fval1, fval2)
                  ELSE fval1
    IN  IF IsRaise(result) THEN result
        ELSE IF IsFS(result) THEN call_global("_apply_forwards", result)
        ELSE result

\* the loop of _inherit over sorted(anc.items()), from the i-th name on
RECURSIVE inherit_items(_, _, _)
inherit_items(child, anc, i) ==
    IF IsRaise(child) \/ i > Len(sorted_names) THEN child
    ELSE LET fname == sorted_names[i]
         IN  IF fname \notin Keys(anc) THEN inherit_items(child, anc, i + 1)
             ELSE LET fval2 == anc.feats[fname]
                      value == IF fname \in Keys(child)
                               THEN _inherit_feature_values(child.feats[fname], fval2)
                               ELSE inherit_all(fval2)
                  IN  IF IsRaise(value) THEN value
                      ELSE inherit_items(set_feature(child, fname, value), anc, i + 1)

\* the loop of _inherit over anc._types
RECURSIVE inherit_types(_, _)
inherit_types(child, tps) ==
    IF IsRaise(child) \/ tps = {} THEN child
    ELSE LET tp == CHOOSE t \in tps : TRUE
         IN  inherit_types(_inherit(child, copy(tp)), tps \ {tp})

_inherit(child, anc) == inherit_types(inherit_items(child, anc, 1), anc.types)

\* inherit(child, anc, rename_vars=rename_vars): what the call returns, or
\* the exception that leaves it
inherit(child, anc, rename_vars) ==
    LET childcopy == copy(child)
        anccopy == copy(anc)
        renamed == IF rename_vars
                   THEN call_global("find_variables", PyNone)
                   ELSE PyNone
        result == _inherit(childcopy, anccopy)
        forwarded == call_global("_apply_forwards", result)
        resolved == call_global("_resolve_aliases", PyNone)
        substituted == call_global("_substitute_bindings", PyNone)
    IN  IF IsRaise(renamed) THEN renamed
        ELSE IF IsRaise(result) THEN result
        ELSE IF IsRaise(forwarded) THEN forwarded
        ELSE IF IsRaise(resolved) THEN resolved
        ELSE IF IsRaise(substituted) THEN substituted
        ELSE forwarded

(***************************************************************************)
(* Operands                                                                *)
(***************************************************************************)
AtomVals == {Atom(v) : v \in Atoms}

\* all structures with feature names in names and values in vals
FSOver(names, vals) ==
    UNION {{MkFS(fm) : fm \in [D -> vals]} : D \in SUBSET names}

SubFS == FSOver(SubNames, AtomVals)

RECURSIVE SetSum(_, _)
SetSum(S, sz) ==
    IF S = {} THEN 0
    ELSE LET k == CHOOSE k \in S : TRUE IN sz[k] + SetSum(S \ {k}, sz)

\* number of features of a structure, nested ones included
SizeOf(x) ==
    Cardinality(Keys(x)) +
    SetSum(Keys(x), [k \in Keys(x) |->
                        IF IsFS(x.feats[k]) THEN Cardinality(Keys(x.feats[k])) ELSE 0])

PlainFS == {x \in FSOver(TopNames, AtomVals \cup SubFS) : SizeOf(x) <= MaxSize}

\* a type parent, as FSHier.parse builds one from "[tense=past]"
TypeT == MkFS([k \in {"tense"} |-> Atom("past")])

TypedFS == {add_type(x, TypeT) : x \in PlainFS}

\* structures that were frozen (FeatStruct.freeze) before being unified
FrozenFS == {freeze(x) : x \in PlainFS \cup TypedFS}

Operands == PlainFS \cup TypedFS

\* the structures FSSets are built from, and the FSSets themselves
SmallFS == {x \in PlainFS : SizeOf(x) <= 1}

SetItems ==
    LET unfrozen == SmallFS \cup {add_type(x, TypeT) :
                       x \in {NewFeatStruct, MkFS([k \in {"tense"} |-> Atom("present")])}}
    IN  unfrozen \cup {freeze(x) : x \in unfrozen}
                 \cup {MkFS([k \in {"subj"} |-> freeze(NewFeatStruct)])}

FSSets == {FSSet_init(S) : S \in {T \in SUBSET SetItems : Cardinality(T) <= MaxSetCard}}

(***************************************************************************)
(* State                                                                   *)
(***************************************************************************)
VARIABLES
    \* unification of two structures
    a, b,          \* the operands
    ab, ba, aa,    \* simple_unify(a, b), simple_unify(b, a), simple_unify(a, a)
    c,             \* a third structure, unified with a failed result
    abc, cab,      \* simple_unify(ab, c), simple_unify(c, ab)
    upc,           \* "start", "unified", "again"
    \* operations on FSSets
    sx, sy,          \* the operands
    sxy,            \* sx.unify(sy)
    onex, xone,    \* TOPFSS.unify(sx), sx.unify(TOPFSS)
    out,           \* the FSSet FSSet.update or FSSet.cast returned
    spc            \* "start", "unified", "updated", "cast"

uvars == <<a, b, ab, ba, aa, c, abc, cab, upc>>
svars == <<sx, sy, sxy, onex, xone, out, spc>>

VARIABLES
    \* the heap of FeatStruct objects
    alloc,         \* the ids of the objects that exist
    hfeats,        \* hfeats[o]: the _features dict of object o
    hfrozen,       \* hfrozen[o]: the _frozen flag of object o
    tset,          \* tset[o]: the id of the set object o._types refers to
    tsets,         \* tsets[i]: the members of the set object i
    op,            \* the last operation
    err,           \* the exception the last operation raised, or "none"
    rcv, res,      \* receiver and result of the last unfreeze()
    steps          \* number of operations so far

hvars == <<alloc, hfeats, hfrozen, tset, tsets, op, err, rcv, res, steps>>

VARIABLES
    \* inherit(child, anc)
    ichild, ianc,  \* the arguments
    irename,       \* the rename_vars argument
    ires,          \* what the call returned or raised
    ipc            \* "start", "done"

ivars == <<ichild, ianc, irename, ires, ipc>>

VARIABLES
    \* self == other on two objects of the heap
    eself, eother, \* the operands
    eres,          \* "True", "False" or the exception raised
    epc            \* "start", "done"

evars == <<eself, eother, eres, epc>>

VARIABLES
    \* reading and writing through a path
    got,           \* the value the last fs[path] or fs.get(path) returned
    parg           \* receiver and path of the last operation with a path

gvars == <<got, parg>>

VARIABLES
    \* FSSet.parse(string)
    pdesc,         \* the feature-value items the string was written from
    ptext,         \* the string
    ppos,          \* pos of split_rep
    psplit,        \* res of split_rep
    pprinted,      \* number of 'Something wrong' lines printed
    pout,          \* the FSSet returned, or the exception raised
    ppc            \* "start", "split", "done", "error"

pvars == <<pdesc, ptext, ppos, psplit, pprinted, pout, ppc>>

\* the variables of the operations that are modelled further down
\* FSTCascade.parse and the operations on the cascade it returns
VARIABLES
    cdesc,       \* the lines of the cascade description, in file order
    csubcasc,    \* the subcasc argument of parse ("" for None)
    cpos,        \* number of lines popped so far
    cweighting,  \* cascade._weighting
    ccascades,   \* cascade._cascades
    csubidx,     \* subcasc_indices
    cfsts,       \* the list contents of the cascade
    cop,         \* the operation called on the loaded cascade
    cres,        \* what that operation returned or raised
    cpc          \* "idle", "parse", "loaded", "error", "done"

cvars == <<cdesc, csubcasc, cpos, cweighting, ccascades, csubidx, cfsts,
           cop, cres, cpc>>

\* the string-set labels of a cascade
VARIABLES
    ll1,     \* label1
    ll2,     \* label2
    lsets,   \* cascade._stringsets
    lab12,   \* simplify_intersection_label(label1, label2)
    lab21,   \* simplify_intersection_label(label2, label1)
    lgen,    \* generate_stringset of lab12
    lpc      \* "idle", "start", "simplified", "done"

lvars == <<ll1, ll2, lsets, lab12, lab21, lgen, lpc>>

\* a morphotactic description being parsed and compiled (mtax.py)
VARIABLES
    mtext,     \* the lines of s read so far
    mparsed,   \* the lines handed to the regular expressions so far
    mpending,  \* pending_line
    mstates,   \* self.states
    mfs,       \* current_fs
    mindent,   \* current_indent
    mfst,      \* self.fst
    mpc        \* "idle", "parse", "parsed", "compiled", "raised", "hung"

mvars == <<mtext, mparsed, mpending, mstates, mfs, mindent, mfst, mpc>>

\* the hash values of two frozen structures
VARIABLES
    kstr,    \* hash(s) of the feature names and atomic values, in this process
    khash    \* <<hash(self), hash(other)>>

kvars == <<kstr, khash>>

\* the languages that were loaded (languages.py, language.py)
VARIABLES
    nmodule,   \* the language has a module with a Language object (am, ti, ...)
    navail,    \* the language has FSTs that load_morpho can load
    nobjs,     \* the Language objects made so far
    nentry,    \* LANGUAGES.get(lang_id): the position of an object, 0 for None
    ncalls     \* the calls made so far

nvars == <<nmodule, navail, nobjs, nentry, ncalls>>

zvars == <<lvars, mvars, kvars, nvars>>

yvars == <<ivars, evars, pvars, cvars, zvars>>
xvars == <<yvars, gvars>>

vars == <<uvars, svars, hvars, xvars>>

\* a result that has not been computed
NoResult == [none |-> TRUE]

UIdle ==
    /\ a = NoResult /\ b = NoResult /\ ab = NoResult /\ ba = NoResult
    /\ aa = NoResult /\ c = NoResult /\ abc = NoResult /\ cab = NoResult
    /\ upc = "idle"

Objs == 1 .. MaxObjs

\* no FeatStruct object has been created
HInit ==
    /\ alloc = {}
    /\ hfeats = [o \in Objs |-> EmptyFeats]
    /\ hfrozen = [o \in Objs |-> FALSE]
    /\ tset = [o \in Objs |-> o]
    /\ tsets = [o \in Objs |-> {}]
    /\ op = "init" /\ err = "none" /\ rcv = 0 /\ res = 0 /\ steps = 0

SIdle ==
    /\ sx = NoResult /\ sy = NoResult /\ sxy = NoResult /\ onex = NoResult
    /\ xone = NoResult /\ out = NoResult /\ spc = "idle"

IIdle ==
    /\ ichild = NoResult /\ ianc = NoResult /\ irename = FALSE
    /\ ires = NoResult /\ ipc = "idle"

EIdle == eself = 0 /\ eother = 0 /\ eres = "none" /\ epc = "idle"

GIdle == got = NoResult /\ parg = NoResult

ParseIdle ==
    /\ pdesc = << >> /\ ptext = << >> /\ ppos = 0 /\ psplit = << >>
    /\ pprinted = 0 /\ pout = NoResult /\ ppc = "idle"

\* cascade._cascades = {}
NoCascades == << >>

CIdle ==
    /\ cdesc = << >> /\ csubcasc = "" /\ cpos = 0 /\ cweighting = "idle"
    /\ ccascades = NoCascades /\ csubidx = << >> /\ cfsts = << >>
    /\ cop = NoResult /\ cres = NoResult /\ cpc = "idle"

LIdle ==
    /\ ll1 = << >> /\ ll2 = << >> /\ lsets = << >> /\ lab12 = << >>
    /\ lab21 = << >> /\ lgen = NoResult /\ lpc = "idle"

MIdle ==
    /\ mtext = << >> /\ mparsed = << >> /\ mpending = << >> /\ mstates = << >>
    /\ mfs = NoResult /\ mindent = 0 /\ mfst = NoResult /\ mpc = "idle"

KIdle == kstr = << >> /\ khash = << >>

NIdle ==
    /\ nmodule = FALSE /\ navail = FALSE /\ nobjs = << >> /\ nentry = 0
    /\ ncalls = << >>

ZIdle == LIdle /\ MIdle /\ KIdle /\ NIdle

XIdle == IIdle /\ EIdle /\ GIdle /\ ParseIdle /\ CIdle /\ ZIdle

(***************************************************************************)
(* Unifying two structures                                                 *)
(***************************************************************************)
UInit ==
    /\ SIdle
    /\ HInit
    /\ XIdle
    /\ a \in Operands \cup FrozenFS
    /\ b \in Operands
    /\ ab = NoResult /\ ba = NoResult /\ aa = NoResult
    /\ c = NoResult /\ abc = NoResult /\ cab = NoResult
    /\ upc = "start"

\* simple_unify applied to the operands, in both orders and to a with itself
Unify ==
    /\ upc = "start"
    /\ ab' = simple_unify(a, b)
    /\ ba' = simple_unify(b, a)
    /\ aa' = simple_unify(a, a)
    /\ upc' = "unified"
    /\ UNCHANGED <<a, b, c, abc, cab, svars, hvars, xvars>>

\* the structures a failed result is unified with afterwards
Thirds == SmallFS

\* a caller that got 'fail' passes it on to simple_unify with a structure
UnifyAgain ==
    /\ upc = "unified"
    /\ PyEq(ab, Fail)
    /\ \E t \in Thirds :
          /\ c' = t
          /\ abc' = simple_unify(ab, t)
          /\ cab' = simple_unify(t, ab)
    /\ upc' = "again"
    /\ UNCHANGED <<a, b, ab, ba, aa, svars, hvars, xvars>>

UNext == Unify \/ UnifyAgain

SpecUnify == UInit /\ [][UNext]_vars

(***************************************************************************)
(* Claims about unification                                                *)
(***************************************************************************)
\* the feature map the scenario of the specification is an instance of:
\* [tense=past, subj=[num=past]] and [tense=past, subj=[gen=present]]
ScenarioFS(name, v) ==
    MkFS([k \in TopNames |->
            IF k = "tense" THEN Atom("past")
            ELSE MkFS([n \in {name} |-> Atom(v)])])

ScenarioResult ==
    MkFS([k \in TopNames |->
            IF k = "tense" THEN Atom("past")
            ELSE MkFS([n \in SubNames |->
                         IF n = "num" THEN Atom("past") ELSE Atom("present")])])

\* C2: when unify(a, b) succeeds, the result defines exactly the feature
\* names defined by a or by b; a name of one operand only carries that
\* operand's value, a name of both carries the unification of the two values.
C2_UnifyDefinesUnion ==
    (upc = "unified" /\ ~PyEq(ab, Fail)) =>
        /\ IsFS(ab)
        /\ Keys(ab) = Keys(a) \cup Keys(b)
        /\ \A k \in Keys(a) \ Keys(b) : PyEq(ab.feats[k], a.feats[k])
        /\ \A k \in Keys(b) \ Keys(a) : PyEq(ab.feats[k], b.feats[k])
        /\ \A k \in Keys(a) \cap Keys(b) :
              PyEq(ab.feats[k], simple_unify(a.feats[k], b.feats[k]))

\* the two structures assign unequal atoms, or an atom and a structure, to
\* the same feature path
RECURSIVE Conflict(_, _)
Conflict(x, y) ==
    \E k \in Keys(x) \cap Keys(y) :
        LET xv == x.feats[k]
            yv == y.feats[k]
        IN  IF IsFS(xv) /\ IsFS(yv) THEN Conflict(xv, yv)
            ELSE IF IsFS(xv) \/ IsFS(yv) THEN TRUE
            ELSE xv.atom # yv.atom

\* C3: operands that assign unequal atomic values, or an atomic value and a
\* nested structure, to the same feature path unify to 'fail'.
C3_ConflictFails ==
    (upc = "unified" /\ Conflict(a, b)) => PyEq(ab, Fail)

\* C4: unify(a, b) and unify(b, a) are both 'fail' or equal structures.
C4_Commutative ==
    (upc = "unified") =>
        \/ PyEq(ab, Fail) /\ PyEq(ba, Fail)
        \/ IsFS(ab) /\ IsFS(ba) /\ PyEq(ab, ba)

C4_Witness ==
    /\ upc = "unified"
    /\ a = ScenarioFS("num", "past")
    /\ b = ScenarioFS("gen", "present")
    /\ PyEq(ab, ScenarioResult)
    /\ PyEq(ba, ScenarioResult)

\* C5: unify(a, a) is a structure equal to a, for typed and untyped, frozen
\* and unfrozen a.
C5_Idempotent ==
    (upc = "unified") => IsFS(aa) /\ PyEq(aa, a)

C5_Witness ==
    /\ upc = "unified"
    /\ a.types # {}
    /\ a.frozen
    /\ \E k \in Keys(a) : IsFS(a.feats[k]) /\ Keys(a.feats[k]) # {}
    /\ PyEq(aa, a)

\* C6: once unify(a, b) is 'fail', unifying that result with a structure c,
\* on either side, is 'fail' again.
C6_FailAbsorbs ==
    (upc = "again") => PyEq(abc, Fail) /\ PyEq(cab, Fail)

C6_Witness ==
    /\ upc = "again"
    /\ PyEq(ab, Fail)
    /\ Keys(c) # {}
    /\ PyEq(abc, Fail)
    /\ PyEq(cab, Fail)

(***************************************************************************)
(* Operations on FSSets                                                    *)
(***************************************************************************)
SInit ==
    /\ UIdle
    /\ HInit
    /\ XIdle
    /\ sx \in FSSets
    /\ sy \in FSSets
    /\ sxy = NoResult /\ onex = NoResult /\ xone = NoResult /\ out = NoResult
    /\ spc = "start"

\* uni_mult(sx, sy), uni_mult(one, sx) and uni_mult(sx, one)
SetUnify ==
    /\ spc = "start"
    /\ sxy' = FSSet_unify(sx, sy)
    /\ onex' = FSSet_unify(TOPFSS, sx)
    /\ xone' = FSSet_unify(sx, TOPFSS)
    /\ spc' = "unified"
    /\ UNCHANGED <<sx, sy, out, uvars, hvars, xvars>>

\* FSSet.update(sx, feats) with a member of sy as feats
SetUpdate ==
    /\ spc = "start"
    /\ \E feats \in sy : out' = FSSet_update(sx, feats)
    /\ spc' = "updated"
    /\ UNCHANGED <<sx, sy, sxy, onex, xone, uvars, hvars, xvars>>

\* FSSet.cast(obj)
SetCast ==
    /\ spc = "start"
    /\ \E obj \in {ScenarioResult, add_type(ScenarioResult, TypeT), NoResult} :
          out' = FSSet_cast(obj)
    /\ spc' = "cast"
    /\ UNCHANGED <<sx, sy, sxy, onex, xone, uvars, hvars, xvars>>

SNext == SetUnify \/ SetUpdate \/ SetCast

SpecFSSet == SInit /\ [][SNext]_vars

(***************************************************************************)
(* Claims about FSSets                                                     *)
(***************************************************************************)
\* equality of two FSSets (Python set equality, members compared with ==)
SetEq(S, T) ==
    /\ \A e \in S : \E f \in T : PyEq(e, f)
    /\ \A f \in T : \E e \in S : PyEq(e, f)

\* C7: {TOP} is the multiplicative identity of the unification semiring:
\* multiply(one, sx) = sx = multiply(sx, one) for every FSSet sx.
C7_TopIsOne ==
    (spc = "unified") => SetEq(onex, sx) /\ SetEq(xone, sx)

\* C8: sx.unify(sy) is exactly the set of the non-fail results of unifying
\* the pairs of sx and sy, and it is {TOP} when the pairwise results all
\* equal TOP.
C8_UnifyIsCrossProduct ==
    (spc = "unified") =>
        /\ SetEq(sxy, {r \in result1(sx, sy) : ~PyEq(r, Fail)})
        /\ (result1(sx, sy) # {} /\ \A r \in result1(sx, sy) : PyEq(r, TOP)) => sxy = {TOP}

\* the structure and every structure nested in it is frozen
RECURSIVE DeepFrozen(_)
DeepFrozen(v) ==
    IsFS(v) => v.frozen /\ \A k \in Keys(v) : DeepFrozen(v.feats[k])

\* C9: every member of an FSSet that an FSSet operation produced is frozen,
\* together with every structure nested in it.
C9_MembersFrozen ==
    /\ (spc # "idle") => \A m \in sx \cup sy : DeepFrozen(m)
    /\ (spc = "unified") => \A m \in sxy \cup onex \cup xone : DeepFrozen(m)
    /\ (spc \in {"updated", "cast"}) => \A m \in out : DeepFrozen(m)

\* sx.unify(sy) holds a structure unify_dicts built, with a nested structure
C9_Witness ==
    /\ spc = "unified"
    /\ \E m \in sxy :
          /\ \A e \in sx \cup sy : ~PyEq(e, m)
          /\ \E k \in Keys(m) : IsFS(m.feats[k])
          /\ DeepFrozen(m)

(***************************************************************************)
(* The heap: mutation, freezing and copying of FeatStruct objects          *)
(***************************************************************************)
\* atomic values stored by the heap operations
HAtoms == {"past", "present"}

Ref(o) == [ref |-> o]
IsRef(v) == "ref" \in DOMAIN v

\* the values a feature of a heap object can be set to
HVals == {Atom(v) : v \in HAtoms} \cup {Ref(o) : o \in alloc}

\* a feature name, or a path of two names
Paths == {<<n>> : n \in TopNames} \cup {<<n, m>> : n \in TopNames, m \in TopNames}

\* the FeatStructs that are values of features of object o
Children(o) == {hfeats[o][k].ref : k \in {n \in DOMAIN hfeats[o] : IsRef(hfeats[o][n])}}

\* the objects reachable from the objects of S through feature values
RECURSIVE ReachFrom(_)
ReachFrom(S) ==
    LET T == S \cup UNION {Children(o) : o \in S}
    IN  IF T = S THEN S ELSE ReachFrom(T)

Reach(o) == ReachFrom({o})

\* self._types of object o
Types(o) == tsets[tset[o]]

\* the _frozen flags after o.freeze(): nothing changes when o is frozen
\* already, otherwise _freeze marks every structure reachable from o
frozen_after(o) ==
    IF hfrozen[o] THEN hfrozen
    ELSE [p \in Objs |-> hfrozen[p] \/ p \in Reach(o)]

RECURSIVE path_parent(_, _)

\* a _path_parent that does not look at the names before the last one
path_parent_no_check(o, path) == o

\* FeatStruct._path_parent(path): the object holding the last name of the
\* path, or 0 when a non-final name is not the name of a nested FeatStruct
\* (KeyError)
path_parent(o, path) ==
    IF Len(path) = 1 THEN o
    ELSE IF path[1] \in DOMAIN hfeats[o] /\ IsRef(hfeats[o][path[1]])
         THEN path_parent(hfeats[o][path[1]].ref, Tail(path))
         ELSE 0

Last(path) == path[Len(path)]

Done(name, e) ==
    /\ op' = name
    /\ err' = e
    /\ steps' = steps + 1
    /\ UNCHANGED <<uvars, svars, yvars>>

\* FeatStruct(): a new object without features, with a type set of its own
New ==
    /\ steps < MaxSteps
    /\ alloc # Objs
    /\ LET o == CHOOSE p \in Objs \ alloc : \A q \in Objs \ alloc : p <= q
       IN  /\ alloc' = alloc \cup {o}
           /\ hfeats' = [hfeats EXCEPT ![o] = EmptyFeats]
           /\ hfrozen' = [hfrozen EXCEPT ![o] = FALSE]
           /\ tset' = [tset EXCEPT ![o] = o]
           /\ tsets' = [tsets EXCEPT ![o] = {}]
    /\ Done("new", "none")
    /\ UNCHANGED <<rcv, res>>

\* the feature map fm with name n set to v
SetName(fm, n, v) == [k \in DOMAIN fm \cup {n} |-> IF k = n THEN v ELSE fm[k]]

\* the feature map fm without name n
DelName(fm, n) == [k \in DOMAIN fm \ {n} |-> fm[k]]

\* o[path] = v   (FeatStruct.__setitem__)
SetItem(o, path, v) ==
    /\ steps < MaxSteps
    /\ IF hfrozen[o]
       THEN Done("set", "ValueError") /\ UNCHANGED hfeats
       ELSE LET parent == path_parent(o, path)
            IN  IF parent = 0
                THEN Done("set", "KeyError") /\ UNCHANGED hfeats
                ELSE IF hfrozen[parent]
                THEN Done("set", "ValueError") /\ UNCHANGED hfeats
                ELSE /\ hfeats' = [hfeats EXCEPT ![parent] = SetName(@, Last(path), v)]
                     /\ Done("set", "none")
    /\ UNCHANGED <<alloc, hfrozen, tset, tsets, rcv, res>>

\* del o[path]   (FeatStruct.__delitem__): with a path the feature is
\* deleted from parent._features, whatever parent._frozen is
DelItem(o, path) ==
    /\ steps < MaxSteps
    /\ IF hfrozen[o]
       THEN Done("del", "ValueError") /\ UNCHANGED hfeats
       ELSE LET parent == path_parent(o, path)
            IN  IF parent = 0 \/ Last(path) \notin DOMAIN hfeats[parent]
                THEN Done("del", "KeyError") /\ UNCHANGED hfeats
                ELSE /\ hfeats' = [hfeats EXCEPT ![parent] = DelName(@, Last(path))]
                     /\ Done("del", "none")
    /\ UNCHANGED <<alloc, hfrozen, tset, tsets, rcv, res>>

\* o.clear()
Clear(o) ==
    /\ steps < MaxSteps
    /\ IF hfrozen[o]
       THEN Done("clear", "ValueError") /\ UNCHANGED hfeats
       ELSE /\ hfeats' = [hfeats EXCEPT ![o] = EmptyFeats]
            /\ Done("clear", "none")
    /\ UNCHANGED <<alloc, hfrozen, tset, tsets, rcv, res>>

\* o.update(src): o[key] = val for every feature of the structure src
Update(o, src) ==
    /\ steps < MaxSteps
    /\ IF hfrozen[o]
       THEN Done("update", "ValueError") /\ UNCHANGED hfeats
       ELSE /\ hfeats' = [hfeats EXCEPT ![o] =
                             [k \in DOMAIN hfeats[o] \cup DOMAIN hfeats[src] |->
                                 IF k \in DOMAIN hfeats[src] THEN hfeats[src][k]
                                 ELSE hfeats[o][k]]]
            /\ Done("update", "none")
    /\ UNCHANGED <<alloc, hfrozen, tset, tsets, rcv, res>>

\* o.add_type(tp): tp.freeze(); o._types.add(tp).  There is no _frozen
\* check on o.  (The set object is kept as a set of object ids.)
AddType(o, tp) ==
    /\ steps < MaxSteps
    /\ hfrozen' = frozen_after(tp)
    /\ tsets' = [tsets EXCEPT ![tset[o]] = @ \cup {tp}]
    /\ Done("add_type", "none")
    /\ UNCHANGED <<alloc, hfeats, tset, rcv, res>>

\* o.freeze()
FreezeOp(o) ==
    /\ steps < MaxSteps
    /\ hfrozen' = frozen_after(o)
    /\ Done("freeze", "none")
    /\ UNCHANGED <<alloc, hfeats, tset, tsets, rcv, res>>

\* o.unfreeze(): o itself when o is not frozen, else o.copy(), the deep copy
\* __deepcopy__ makes: one new unfrozen object for every structure
\* reachable from o, whose _types is the _types set object of the original
Unfreeze(o) ==
    /\ steps < MaxSteps
    /\ rcv' = o
    /\ IF ~hfrozen[o]
       THEN /\ res' = o
            /\ UNCHANGED <<alloc, hfeats, hfrozen, tset>>
       ELSE /\ Cardinality(Objs \ alloc) >= Cardinality(Reach(o))
            /\ LET R == Reach(o)
                   memo == CHOOSE m \in [R -> Objs \ alloc] :
                              \A p, q \in R : m[p] = m[q] => p = q
                   new == {memo[p] : p \in R}
                   orig(n) == CHOOSE p \in R : memo[p] = n
                   copyval(v) == IF IsRef(v) THEN Ref(memo[v.ref]) ELSE v
               IN  /\ alloc' = alloc \cup new
                   /\ hfeats' = [n \in Objs |->
                                   IF n \in new
                                   THEN [k \in DOMAIN hfeats[orig(n)] |->
                                            copyval(hfeats[orig(n)][k])]
                                   ELSE hfeats[n]]
                   /\ hfrozen' = [n \in Objs |-> IF n \in new THEN FALSE ELSE hfrozen[n]]
                   /\ tset' = [n \in Objs |-> IF n \in new THEN tset[orig(n)] ELSE tset[n]]
                   /\ res' = memo[o]
    /\ Done("unfreeze", "none")
    /\ UNCHANGED tsets

Init ==
    /\ UIdle
    /\ SIdle
    /\ HInit
    /\ XIdle

Next ==
    \/ New /\ UNCHANGED gvars
    \/ \E o \in alloc, path \in Paths, v \in HVals :
           SetItem(o, path, v) /\ UNCHANGED gvars
    \/ \E o \in alloc, path \in Paths : DelItem(o, path) /\ UNCHANGED gvars
    \/ \E o \in alloc : Clear(o) /\ UNCHANGED gvars
    \/ \E o \in alloc, src \in alloc : Update(o, src) /\ UNCHANGED gvars
    \/ \E o \in alloc, tp \in alloc : AddType(o, tp) /\ UNCHANGED gvars
    \/ \E o \in alloc : FreezeOp(o) /\ UNCHANGED gvars
    \/ \E o \in alloc : Unfreeze(o) /\ UNCHANGED gvars

Spec == Init /\ [][Next]_vars

(***************************************************************************)
(* Claims about freezing and copying                                       *)
(***************************************************************************)
\* C1: once a FeatStruct is frozen, no operation changes its features, its
\* nested structures or its type parents, and it stays frozen.
C1_FrozenImmutable ==
    [][\A o \in alloc :
          hfrozen[o] =>
             /\ hfrozen'[o]
             /\ hfeats'[o] = hfeats[o]
             /\ tsets'[tset'[o]] = tsets[tset[o]]]_vars

\* C10: unfreeze() returns a new unfrozen structure that is not the
\* receiver and shares with it no nested FeatStruct and no other mutable
\* part, whether the receiver is frozen or not.
C10_UnfreezeCopies ==
    (op = "unfreeze") =>
        /\ res # rcv
        /\ ~hfrozen[res]
        /\ Reach(res) \cap Reach(rcv) = {}
        /\ tset[res] # tset[rcv]

(***************************************************************************)
(* Inheriting from an ancestor                                             *)
(***************************************************************************)
IInit ==
    /\ UIdle
    /\ SIdle
    /\ HInit
    /\ EIdle
    /\ GIdle
    /\ ParseIdle
    /\ CIdle
    /\ ZIdle
    /\ ichild \in Operands
    /\ ianc \in Operands
    /\ irename \in BOOLEAN
    /\ ires = NoResult
    /\ ipc = "start"

\* result = inherit(child, anc, rename_vars=irename)
Inherit ==
    /\ ipc = "start"
    /\ ires' = inherit(ichild, ianc, irename)
    /\ ipc' = "done"
    /\ UNCHANGED <<ichild, ianc, irename, uvars, svars, hvars, evars, gvars, pvars,
                   cvars, zvars>>

INext == Inherit

SpecInherit == IInit /\ [][INext]_vars

\* C11: inherit(child, anc) never fails: it returns a structure in which
\* every feature defined by child keeps child's value (nested structures
\* merged), and every feature defined only by anc has anc's value.
C11_InheritNeverFails ==
    ipc = "done" =>
        /\ IsFS(ires)
        /\ Keys(ichild) \cup Keys(ianc) \subseteq Keys(ires)
        /\ \A k \in Keys(ichild) :
               ~IsFS(ichild.feats[k]) => PyEq(ires.feats[k], ichild.feats[k])
        /\ \A k \in Keys(ianc) \ Keys(ichild) :
               PyEq(ires.feats[k], ianc.feats[k])

(***************************************************************************)
(* Equality of structures of the heap (fs.py, __eq__ / _equal / _hash)     *)
(***************************************************************************)
\* what a call returns together with the visited_pairs set it leaves
Ret(r, vp) == [ret |-> r, visited |-> vp]

\* the things FeatStruct._hash adds up: hash(fname) and hash(fval) of the
\* names and atomic values, and 1 for a structure that was visited before
HashTerms == TopNames \cup HAtoms \cup {"1"}
NoTerms == [t \in HashTerms |-> 0]
Term(t) == [u \in HashTerms |-> IF u = t THEN 1 ELSE 0]
Plus(h1, h2) == [t \in HashTerms |-> h1[t] + h2[t]]

\* FeatStruct._hash(visited) of object o: the sum, kept as the number of
\* times each term occurs in it, and the visited set afterwards
RECURSIVE _hash(_, _)
RECURSIVE hash_items(_, _, _, _)
hash_items(o, i, hashval, visited) ==
    IF i > Len(sorted_names) THEN [h |-> hashval, visited |-> visited]
    ELSE LET fname == sorted_names[i]
         IN  IF fname \notin DOMAIN hfeats[o]
             THEN hash_items(o, i + 1, hashval, visited)
             ELSE LET fval == hfeats[o][fname]
                      named == Plus(hashval, Term(fname))
                  IN  IF IsRef(fval)
                      THEN LET sub == _hash(fval.ref, visited)
                           IN  hash_items(o, i + 1, Plus(named, sub.h), sub.visited)
                      ELSE hash_items(o, i + 1, Plus(named, Term(fval.atom)), visited)

_hash(o, visited) ==
    IF o \in visited THEN [h |-> Term("1"), visited |-> visited]
    ELSE hash_items(o, 1, NoTerms, visited \cup {o})

\* hash(o)
hash(o) == _hash(o, {}).h

RECURSIVE _equal(_, _, _, _)

\* key in T for a set T of structures: an entry that is the same object, or
\* an entry with the same hash that == finds equal
RECURSIVE contains_loop(_, _, _)
contains_loop(entries, key, depth) ==
    IF entries = {} THEN "False"
    ELSE LET startkey == CHOOSE f \in entries : TRUE
             cmp == _equal(startkey, Ref(key), {}, depth + 1).ret
         IN  IF cmp = "False" THEN contains_loop(entries \ {startkey}, key, depth)
             ELSE cmp

contains(T, key, depth) ==
    IF key \in T THEN "True"
    ELSE contains_loop({f \in T : hash(f) = hash(key)}, key, depth)

\* types1 != types2 for two sets of structures
RECURSIVE types_loop(_, _, _)
types_loop(types1, types2, depth) ==
    IF types1 = {} THEN "False"
    ELSE LET key == CHOOSE e \in types1 : TRUE
             found == contains(types2, key, depth)
         IN  IF found = "True" THEN types_loop(types1 \ {key}, types2, depth)
             ELSE IF found = "False" THEN "True"
             ELSE found

types_ne(types1, types2, depth) ==
    IF Cardinality(types1) # Cardinality(types2) THEN "True"
    ELSE types_loop(types1, types2, depth)

\* the loop of _equal over self.items(), for the names that are left
RECURSIVE equal_items(_, _, _, _, _)
equal_items(self, other, names, visited_pairs, depth) ==
    IF names = {} THEN Ret("True", visited_pairs)
    ELSE LET fname == CHOOSE n \in names : TRUE
             self_fval == hfeats[self][fname]
             other_fval == hfeats[other][fname]
         IN  IF IsRef(self_fval)
             THEN LET sub == _equal(self_fval.ref, other_fval, visited_pairs, depth + 1)
                  IN  IF sub.ret = "True"
                      THEN equal_items(self, other, names \ {fname}, sub.visited, depth)
                      ELSE sub
             ELSE IF IsRef(other_fval) \/ self_fval.atom # other_fval.atom
                  THEN Ret("False", visited_pairs)
                  ELSE equal_items(self, other, names \ {fname}, visited_pairs, depth)

\* self._equal(other, visited_self, visited_other, visited_pairs), called at
\* the given depth of the call stack; other is any feature value
_equal(self, other, visited_pairs, depth) ==
    IF depth > RecursionLimit THEN Ret("RecursionError", visited_pairs)
    ELSE IF IsRef(other) /\ other.ref = self THEN Ret("True", visited_pairs)
    ELSE IF ~IsRef(other) THEN Ret("False", visited_pairs)
    ELSE LET differ == types_ne(Types(self), Types(other.ref), depth)
         IN  IF differ = "True" THEN Ret("False", visited_pairs)
             ELSE IF differ # "False" THEN Ret(differ, visited_pairs)
             ELSE IF DOMAIN hfeats[self] # DOMAIN hfeats[other.ref]
             THEN Ret("False", visited_pairs)
             ELSE IF <<self, other.ref>> \in visited_pairs
             THEN Ret("True", visited_pairs)
             ELSE equal_items(self, other.ref, DOMAIN hfeats[self],
                              visited_pairs \cup {<<self, other.ref>>}, depth)

\* self == other
__eq__(self, other) == _equal(self, Ref(other), {}, 1).ret

\* the heaps the comparison runs on: each object has an optional atomic
\* feature, an optional nested structure (any of the objects, itself
\* included) and at most one type parent (any of the objects: add_type
\* accepts every structure); type parents are frozen, as add_type leaves them
EObjs == 1 .. (MaxObjs - 2)

EFeats ==
    {fm \in UNION {[D -> {Atom("past")} \cup {Ref(p) : p \in EObjs}] :
                      D \in SUBSET TopNames} :
        /\ "tense" \in DOMAIN fm => ~IsRef(fm["tense"])
        /\ "subj" \in DOMAIN fm => IsRef(fm["subj"])}

ETypes == {{}} \cup {{p} : p \in EObjs}

EInit ==
    /\ UIdle
    /\ SIdle
    /\ IIdle
    /\ GIdle
    /\ ParseIdle
    /\ CIdle
    /\ ZIdle
    /\ alloc = EObjs
    /\ hfeats \in [Objs -> EFeats]
    /\ \A o \in Objs \ EObjs : hfeats[o] = EmptyFeats
    /\ tset = [o \in Objs |-> o]
    /\ tsets \in [Objs -> ETypes]
    /\ \A o \in Objs \ EObjs : tsets[o] = {}
    /\ hfrozen = [o \in Objs |-> o \in ReachFrom(UNION {tsets[p] : p \in EObjs})]
    /\ op = "init" /\ err = "none" /\ rcv = 0 /\ res = 0 /\ steps = 0
    /\ eself = 0 /\ eother = 0 /\ eres = "none" /\ epc = "start"

\* eres = (self == other)
Equal(self, other) ==
    /\ epc = "start"
    /\ eself' = self
    /\ eother' = other
    /\ eres' = __eq__(self, other)
    /\ epc' = "done"
    /\ UNCHANGED <<uvars, svars, hvars, ivars, gvars, pvars, cvars, zvars>>

ENext == \E self \in EObjs, other \in EObjs : Equal(self, other)

SpecEqual == EInit /\ [][ENext]_vars

\* C12: FeatStruct equality terminates for all inputs, cyclic structures
\* included: every comparison returns True or False.
C12_EqualityTerminates == epc = "done" => eres \in {"True", "False"}

(***************************************************************************)
(* Reading and writing through a path (fs.py, __getitem__ / get /          *)
(* __setitem__ / __delitem__)                                              *)
(***************************************************************************)
\* paths of one, two and three names
LongPaths ==
    Paths \cup {<<n, m, l>> : n \in TopNames, m \in TopNames, l \in TopNames}

\* the receiver and the path of an operation
Arg(o, path) == [rcv |-> o, path |-> path]

\* fs[path] for object o: the value, or KeyError
getitem(o, path) ==
    LET parent == path_parent(o, path)
    IN  IF parent = 0 \/ Last(path) \notin DOMAIN hfeats[parent]
        THEN Raise("KeyError")
        ELSE hfeats[parent][Last(path)]

\* fs[path]   (FeatStruct.__getitem__)
GetItem(o, path) ==
    /\ steps < MaxSteps
    /\ LET value == getitem(o, path)
       IN  IF IsRaise(value)
           THEN Done("getitem", value.exc) /\ got' = NoResult
           ELSE Done("getitem", "none") /\ got' = value
    /\ parg' = Arg(o, path)
    /\ UNCHANGED <<alloc, hfeats, hfrozen, tset, tsets, rcv, res>>

\* fs.get(path)   (FeatStruct.get with default=None)
GetOp(o, path) ==
    /\ steps < MaxSteps
    /\ LET value == getitem(o, path)
       IN  got' = IF IsRaise(value) /\ value.exc = "KeyError" THEN PyNone ELSE value
    /\ Done("get", "none")
    /\ parg' = Arg(o, path)
    /\ UNCHANGED <<alloc, hfeats, hfrozen, tset, tsets, rcv, res>>

PSetItem(o, path, v) ==
    SetItem(o, path, v) /\ parg' = Arg(o, path) /\ got' = NoResult

PDelItem(o, path) ==
    DelItem(o, path) /\ parg' = Arg(o, path) /\ got' = NoResult

\* the structures the operations run on: a chain 1, 2, ... of objects in
\* which a structure may hold a later one as its 'subj', or an atom; the
\* last one may have a 'tense'; any of them may have been frozen
PObjs == 1 .. (MaxObjs - 1)

PSubj(o) ==
    {EmptyFeats} \cup
    {[k \in {"subj"} |-> v] : v \in {Atom("past")} \cup {Ref(p) : p \in {q \in PObjs : q > o}}}

PInit ==
    /\ UIdle
    /\ SIdle
    /\ IIdle
    /\ EIdle
    /\ ParseIdle
    /\ CIdle
    /\ ZIdle
    /\ alloc = PObjs
    /\ hfeats \in [Objs -> UNION {PSubj(o) : o \in PObjs}
                           \cup {[k \in {"tense"} |-> Atom("past")]}]
    /\ \A o \in PObjs : hfeats[o] \in PSubj(o) \/
                        (o = MaxObjs - 1 /\ "tense" \in DOMAIN hfeats[o])
    /\ \A o \in Objs \ PObjs : hfeats[o] = EmptyFeats
    /\ tset = [o \in Objs |-> o]
    /\ tsets = [o \in Objs |-> {}]
    /\ \E F \in SUBSET PObjs : hfrozen = [o \in Objs |-> o \in ReachFrom(F)]
    /\ op = "init" /\ err = "none" /\ rcv = 0 /\ res = 0
    /\ steps = MaxSteps - 1
    /\ got = NoResult /\ parg = NoResult

PNext ==
    \/ \E o \in alloc, path \in LongPaths : GetItem(o, path)
    \/ \E o \in alloc, path \in LongPaths : GetOp(o, path)
    \/ \E o \in alloc, path \in LongPaths : PSetItem(o, path, Atom("present"))
    \/ \E o \in alloc, path \in LongPaths : PDelItem(o, path)

SpecPath == PInit /\ [][PNext]_vars

\* the object reached from o along names, 0 when one of them is not the
\* name of a nested structure
RECURSIVE Follow(_, _)
Follow(o, names) ==
    IF names = << >> THEN o
    ELSE IF names[1] \in DOMAIN hfeats[o] /\ IsRef(hfeats[o][names[1]])
         THEN Follow(hfeats[o][names[1]].ref, Tail(names))
         ELSE 0

\* path has several segments, and some non-final one does not name a
\* nested structure of o
BadPath(o, path) ==
    Len(path) > 1 /\ Follow(o, SubSeq(path, 1, Len(path) - 1)) = 0

\* the step is an operation with such a path
BadPathStep ==
    /\ steps' = steps + 1
    /\ op' \in {"getitem", "get", "set", "del"}
    /\ BadPath(parg'.rcv, parg'.path)

HeapUnchanged == UNCHANGED <<alloc, hfeats, hfrozen, tset, tsets>>

\* C13: get, set and delete with a multi-segment path raise KeyError
\* whenever a non-final segment does not name a nested FeatStruct, and leave
\* the structure unchanged.
C13_BadPathRaisesKeyError ==
    [][BadPathStep => (err' = "KeyError" /\ HeapUnchanged)]_vars

\* C13 as the code has it: with such a path fs[path] raises KeyError, set
\* and delete raise KeyError on an unfrozen receiver and ValueError on a
\* frozen one, get returns its default (None) without raising; the
\* structure is unchanged in every case.
C13_BadPathOutcome ==
    [][BadPathStep =>
        /\ HeapUnchanged
        /\ op' = "getitem" => err' = "KeyError"
        /\ op' = "get" => (err' = "none" /\ got' = PyNone)
        /\ op' \in {"set", "del"} =>
               err' = IF hfrozen[parg'.rcv] THEN "ValueError" ELSE "KeyError"]_vars

\* a delete through a path of three names whose first name is a nested
\* structure and whose second is not has raised KeyError
C13_Witness ==
    /\ op = "del" /\ err = "KeyError"
    /\ parg # NoResult
    /\ Len(parg.path) = 3
    /\ BadPath(parg.rcv, parg.path)
    /\ Follow(parg.rcv, <<parg.path[1]>>) # 0

(***************************************************************************)
(* FSSet.parse (semiring.py, parse / proc_fv / split_rep / split_fval /    *)
(* incorp_fval; fs.py, FeatStructParser)                                   *)
(*                                                                         *)
(* A Python string is a sequence of one-character strings.                 *)
(***************************************************************************)
\* the characters \w matches, among those the literals are written with
Letters == {"n", "e", "g", "t", "m", "s", "b", "p", "r", "f", "i", "a", "x"}
Signs == {"+", "-"}
Blank == {" "}

\* the string with the characters of s
RECURSIVE Str(_)
Str(s) == IF s = << >> THEN "" ELSE s[1] \o Str(Tail(s))

\* s[i-1:] and s[:i-1] for a position i of s counted from 1
From(s, i) == SubSeq(s, i, Len(s))
Upto(s, i) == SubSeq(s, 1, i)

\* the first position from i on whose character is not in class, or is in
\* class; Len(s) + 1 when there is none
RECURSIVE SpanEnd(_, _, _)
SpanEnd(s, i, class) ==
    IF i > Len(s) \/ s[i] \notin class THEN i ELSE SpanEnd(s, i + 1, class)

RECURSIVE FindFirst(_, _, _)
FindFirst(s, i, class) ==
    IF i > Len(s) \/ s[i] \in class THEN i ELSE FindFirst(s, i + 1, class)

\* where \w+?\s*= matches at the start of s: the position after the '=',
\* 0 when it does not match
feat_eq(s) ==
    LET w == SpanEnd(s, 1, Letters)
        sp == SpanEnd(s, w, Blank)
    IN  IF w > 1 /\ sp <= Len(s) /\ s[sp] = "=" THEN sp + 1 ELSE 0

\* a match: the length of group 1 and of the whole match; NoMatch is None
Match(g, e) == [group |-> g, end |-> e]
NoMatch == Match(0, 0)

\* COMP_FVAL_RE.match(s):  (\w+?\s*=\s*\[.+?\])
COMP_FVAL_RE(s) ==
    LET e == feat_eq(s)
        v == SpanEnd(s, e, Blank)
        close == FindFirst(s, v + 2, {"]"})
    IN  IF e = 0 \/ v > Len(s) THEN NoMatch
        ELSE IF s[v] # "[" \/ close > Len(s) THEN NoMatch
        ELSE Match(close, close)

\* SIMP_FVAL_RE.match(s):  ([+-]{1,2}\w+?|\w+?\s*=\s*[^\]]+?)(?:,|\]|$)
SIMP_FVAL_RE(s) ==
    IF s = << >> THEN NoMatch
    ELSE IF s[1] \in Signs
    THEN LET k == IF Len(s) >= 2 /\ s[2] \in Signs THEN 2 ELSE 1
             w == SpanEnd(s, k + 1, Letters)
         IN  IF w = k + 1 THEN NoMatch
             ELSE IF w > Len(s) THEN Match(Len(s), Len(s))
             ELSE IF s[w] \in {",", "]"} THEN Match(w - 1, w)
             ELSE NoMatch
    ELSE LET e == feat_eq(s)
             v == SpanEnd(s, e, Blank)
             \* \s* gives back one blank when no value character follows it
             t == IF v <= Len(s) /\ s[v] # "]" THEN v
                  ELSE IF v > e THEN v - 1 ELSE 0
             q == FindFirst(s, t + 1, {",", "]"}) - 1
         IN  IF e = 0 \/ t = 0 THEN NoMatch
             ELSE Match(q, IF q = Len(s) THEN q ELSE q + 1)

\* one pass of the while loop of split_rep at position pos of rep0 (counted
\* from 0): the new position, the pair appended to res if any, and whether
\* the pass was the one that only prints 'Something wrong'
split_pass(rep0, pos) ==
    LET rest == From(rep0, pos + 1)
        comp == COMP_FVAL_RE(rest)
        simp == SIMP_FVAL_RE(rest)
    IN  IF rep0[pos + 1] \in {",", " "}
        THEN [pos |-> pos + 1, fv |-> << >>, wrong |-> FALSE]
        ELSE IF comp # NoMatch
        THEN [pos |-> pos + comp.end, fv |-> <<Upto(rest, comp.group)>>, wrong |-> FALSE]
        ELSE IF simp # NoMatch
        THEN [pos |-> pos + simp.end, fv |-> <<Upto(rest, simp.group)>>, wrong |-> FALSE]
        ELSE [pos |-> pos, fv |-> << >>, wrong |-> TRUE]

\* rep[1:-1]
Inner(rep) == SubSeq(rep, 2, Len(rep) - 1)

\* the characters of s
Chars(s) == {s[i] : i \in 1 .. Len(s)}

\* a in s for a string a of two characters
HasSub(s, c1, c2) == \E i \in 1 .. Len(s) - 1 : s[i] = c1 /\ s[i + 1] = c2

\* s.split(sep)
RECURSIVE Split(_, _)
Split(s, sep) ==
    LET i == FindFirst(s, 1, {sep})
    IN  IF i > Len(s) THEN <<s>>
        ELSE <<Upto(s, i - 1)>> \o Split(From(s, i + 1), sep)

\* s.strip()
RECURSIVE rstrip(_)
rstrip(s) == IF s # << >> /\ s[Len(s)] \in Blank THEN rstrip(Upto(s, Len(s) - 1)) ELSE s
strip(s) == rstrip(From(s, SpanEnd(s, 1, Blank)))

\* what split_rep, split_fval and proc_fv return: a list of strings (for
\* proc_fv possibly its argument itself, a string), unless the loop of
\* split_rep never ends
Strings(l) == [loops |-> FALSE, list |-> TRUE, strings |-> l]
NeverReturns == [loops |-> TRUE, list |-> TRUE, strings |-> << >>]

\* FSSet.split_rep(rep)
RECURSIVE split_rep_from(_, _, _)
split_rep_from(rep0, pos, acc) ==
    IF pos >= Len(rep0) THEN Strings(acc)
    ELSE LET pass == split_pass(rep0, pos)
         IN  IF pass.wrong THEN NeverReturns
             ELSE split_rep_from(rep0, pass.pos, acc \o pass.fv)

split_rep(rep) == split_rep_from(Inner(rep), 0, << >>)

RECURSIVE proc_fv(_)

\* [prefix + x for x in l]
Prefixed(prefix, l) == [j \in 1 .. Len(l) |-> prefix \o l[j]]

\* [feat + '=' + x for x in proc_fv(values)], a list
nested_values(feat, sub) ==
    [sub EXCEPT !.list = TRUE,
                !.strings = Prefixed(feat \o <<"=">>, sub.strings)]

\* a split_fval that keeps the first alternative only
split_fval_first_only(fval) ==
    IF "|" \notin Chars(fval) /\ ~HasSub(fval, "+", "-")
    THEN Strings(<<fval>>)
    ELSE IF "=" \in Chars(fval)
    THEN Strings(<<Upto(fval, FindFirst(fval, 1, {"|"}) - 1)>>)
    ELSE Strings(<<<<"+">> \o From(fval, SpanEnd(fval, 1, Signs))>>)

\* FSSet.split_fval(fval)
split_fval(fval) ==
    IF "|" \notin Chars(fval) /\ ~HasSub(fval, "+", "-")
    THEN Strings(<<fval>>)
    ELSE IF "[" \in Chars(fval) \/ "=" \in Chars(fval)
    THEN LET i == FindFirst(fval, 1, {"="})
             feat == Upto(fval, i - 1)
             values == From(fval, i + 1)
         IN  IF "[" \in Chars(values)
             THEN nested_values(feat, proc_fv(values))
             ELSE Strings(Prefixed(feat \o <<"=">>, Split(values, "|")))
    ELSE LET i == CHOOSE j \in 1 .. Len(fval) + 1 :
                     /\ j <= Len(fval) - 1 => (fval[j] = "+" /\ fval[j + 1] = "-")
                     /\ j > Len(fval) - 1 => j = Len(fval) + 1
                     /\ \A k \in 1 .. j - 1 :
                            k <= Len(fval) - 1 => ~(fval[k] = "+" /\ fval[k + 1] = "-")
             feat == From(fval, i + 2)
         IN  Strings(<<<<"+">> \o feat, <<"-">> \o feat>>)

\* [(string + ',' + v) for string in strings for v in split]
incorp_split(strings, splitv) ==
    LET n == Len(splitv.strings)
    IN  [splitv EXCEPT !.strings =
            [j \in 1 .. Len(strings) * n |->
                strings[((j - 1) \div n) + 1] \o <<",">> \o splitv.strings[((j - 1) % n) + 1]]]

\* FSSet.incorp_fval(strings, fval)
incorp_fval(strings, fval) == incorp_split(strings, split_fval(fval))

\* the loop of proc_fv over fv_split[1:]
RECURSIVE incorp_rest(_, _, _)
incorp_rest(acc, fv_split, i) ==
    IF acc.loops \/ i > Len(fv_split) THEN acc
    ELSE incorp_rest(incorp_fval(acc.strings, fv_split[i]), fv_split, i + 1)

\* ['[' + string + ']' for string in strings]
bracketed(acc) ==
    [acc EXCEPT !.strings =
        [j \in 1 .. Len(acc.strings) |-> <<"[">> \o acc.strings[j] \o <<"]">>]]

\* what proc_fv does with the list split_rep returned for fv
proc_split(fv, fv_split) ==
    IF fv_split = << >>
    THEN [loops |-> FALSE, list |-> FALSE, strings |-> [j \in 1 .. Len(fv) |-> <<fv[j]>>]]
    ELSE bracketed(incorp_rest(split_fval(fv_split[1]), fv_split, 2))

\* proc_fv after split_rep, which may not have returned
proc_scanned(fv, fv_split) ==
    IF fv_split.loops THEN NeverReturns ELSE proc_split(fv, fv_split.strings)

\* FSSet.proc_fv(fv)
proc_fv(fv) == proc_scanned(fv, split_rep(fv))

\* the characters a feature name cannot contain (_FEATURE_NAME_RE)
NameStops == {" ", "(", ")", "\"", "'", "-", "=", "[", "]", ","}

\* a parsed value and the position (counted from 1) after it
Parsed(v, pos) == [val |-> v, pos |-> pos]

RECURSIVE _partial_parse(_, _)

\* FeatStructParser.parse_value: a nested structure or a symbol (the
\* literals hold no variables, quoted strings, numbers, sets or tuples)
parse_value(s, pos) ==
    IF pos <= Len(s) /\ s[pos] = "["
    THEN _partial_parse(s, pos)
    ELSE LET w == SpanEnd(s, pos, Letters)
         IN  IF w > pos THEN Parsed(Atom(Str(SubSeq(s, pos, w - 1))), w)
             ELSE Raise("ValueError")

\* the while loop of _partial_parse from position pos, fm being the
\* features stored so far
RECURSIVE parse_features(_, _, _)
parse_features(s, pos, fm) ==
    IF pos > Len(s) THEN Raise("ValueError")
    ELSE LET sp == SpanEnd(s, pos, Blank)
         IN  IF sp <= Len(s) /\ s[sp] = "]"
             THEN Parsed(MkFS(fm), SpanEnd(s, sp + 1, Blank))
             ELSE LET signed == /\ sp <= Len(s)
                                /\ s[sp] \in Signs
                                /\ FindFirst(s, sp + 1, NameStops) > sp + 1
                      start == IF signed THEN sp + 1 ELSE sp
                      stop == FindFirst(s, start, NameStops)
                      name == Str(SubSeq(s, start, stop - 1))
                      after == SpanEnd(s, stop, Blank)
                      value == IF signed
                               THEN Parsed(Atom(IF s[sp] = "+" THEN "True" ELSE "False"), after)
                               ELSE IF after <= Len(s) /\ s[after] = "="
                               THEN parse_value(s, SpanEnd(s, after + 1, Blank))
                               ELSE Raise("ValueError")
                  IN  IF stop = start \/ name \in DOMAIN fm THEN Raise("ValueError")
                      ELSE IF IsRaise(value) THEN value
                      ELSE LET e == SpanEnd(s, value.pos, Blank)
                               fm2 == SetName(fm, name, value.val)
                           IN  IF e <= Len(s) /\ s[e] = "]"
                               THEN parse_features(s, value.pos, fm2)
                               ELSE IF e <= Len(s) /\ s[e] = ","
                               THEN parse_features(s, SpanEnd(s, e + 1, Blank), fm2)
                               ELSE Raise("ValueError")

\* FeatStructParser._partial_parse for a structure written with its
\* brackets (no identifier, prefix or types before the features)
_partial_parse(s, pos) ==
    LET sp == SpanEnd(s, pos, Blank)
    IN  IF sp <= Len(s) /\ s[sp] = "["
        THEN parse_features(s, sp + 1, EmptyFeats)
        ELSE Raise("ValueError")

\* FeatStructParser().parse(s)
FeatStructParser_parse(s) ==
    LET t == strip(s)
        parsed == _partial_parse(t, 1)
    IN  IF IsRaise(parsed) THEN parsed
        ELSE IF parsed.pos # Len(t) + 1 THEN Raise("ValueError")
        ELSE parsed.val

\* utils.reduce_lists(lists): the lists joined into one
RECURSIVE reduce_lists(_)
reduce_lists(lists) ==
    IF lists = << >> THEN << >> ELSE lists[1] \o reduce_lists(Tail(lists))

\* FSSet(*strings): every string is parsed and frozen, unless the parser
\* raises ValueError for one of them
parsed_items(strings) ==
    {FeatStructParser_parse(strings[j]) : j \in 1 .. Len(strings)}

parse_fails(strings) == \E itm \in parsed_items(strings) : IsRaise(itm)

FSSet_of_strings(strings) ==
    IF parse_fails(strings) THEN Raise("ValueError")
    ELSE FSSet_init(parsed_items(strings))

(***************************************************************************)
(* Parsing a literal                                                       *)
(***************************************************************************)
\* the literals: "[" item ", " item ... "]" with items +f, -f, +-f, f=v,
\* f=v|w and, not well formed, a bare f; no feature is written twice
FeatNames == {<<"n", "e", "g">>, <<"t", "m">>, <<"s", "b">>}
ValNames == {<<"p", "r", "f">>, <<"i", "m", "f">>}

Items ==
    {[kind |-> k, feat |-> f, vals |-> << >>] :
        k \in {"plus", "minus", "plusminus", "bare"}, f \in FeatNames}
    \cup {[kind |-> "eq", feat |-> f, vals |-> <<v>>] : f \in FeatNames, v \in ValNames}
    \cup {[kind |-> "eq", feat |-> f, vals |-> vw] :
             f \in FeatNames, vw \in {p \in ValNames \X ValNames : p[1] # p[2]}}

Descs ==
    {d \in UNION {[1 .. n -> Items] : n \in 0 .. MaxItems} :
        \A i \in DOMAIN d, j \in DOMAIN d : i # j => d[i].feat # d[j].feat}

\* the pieces of l with sep between them
RECURSIVE Join(_, _)
Join(l, sep) ==
    IF l = << >> THEN << >>
    ELSE IF Len(l) = 1 THEN l[1]
    ELSE l[1] \o sep \o Join(Tail(l), sep)

Render(item) ==
    CASE item.kind = "plus" -> <<"+">> \o item.feat
      [] item.kind = "minus" -> <<"-">> \o item.feat
      [] item.kind = "plusminus" -> <<"+", "-">> \o item.feat
      [] item.kind = "bare" -> item.feat
      [] item.kind = "eq" -> item.feat \o <<"=">> \o Join(item.vals, <<"|">>)

Literal(d) ==
    <<"[">> \o Join([i \in DOMAIN d |-> Render(d[i])], <<",", " ">>) \o <<"]">>

ParseInit ==
    /\ UIdle
    /\ SIdle
    /\ HInit
    /\ IIdle
    /\ EIdle
    /\ CIdle
    /\ ZIdle
    /\ GIdle
    /\ pdesc \in Descs
    /\ ptext = Literal(pdesc)
    /\ ppos = 0 /\ psplit = << >> /\ pprinted = 0
    /\ pout = NoResult
    /\ ppc = "start"

ParseFrame ==
    UNCHANGED <<pdesc, ptext, uvars, svars, hvars, ivars, evars, gvars, cvars,
                zvars>>

\* FSSet.parse(string) up to the call of split_rep: '[]' is TOPFSS
ParseStart ==
    /\ ppc = "start"
    /\ IF ptext = <<"[", "]">>
       THEN pout' = TOPFSS /\ ppc' = "done"
       ELSE pout' = pout /\ ppc' = "split"
    /\ UNCHANGED <<ppos, psplit, pprinted>>
    /\ ParseFrame

\* one pass of the while loop of split_rep
ParseScan ==
    /\ ppc = "split"
    /\ ppos < Len(Inner(strip(ptext)))
    /\ LET pass == split_pass(Inner(strip(ptext)), ppos)
       IN  IF pass.wrong
           THEN /\ pprinted < MaxPrints
                /\ pprinted' = pprinted + 1
                /\ UNCHANGED <<ppos, psplit>>
           ELSE /\ ppos' = pass.pos
                /\ psplit' = psplit \o pass.fv
                /\ UNCHANGED pprinted
    /\ UNCHANGED <<pout, ppc>>
    /\ ParseFrame

\* split_rep returns; the rest of proc_fv and of FSSet.parse
ParseFinish ==
    /\ ppc = "split"
    /\ ppos >= Len(Inner(strip(ptext)))
    /\ LET fvs == proc_split(strip(ptext), psplit)
           strings == reduce_lists(<<fvs.strings>>)
       IN  /\ ~fvs.loops
           /\ pout' = FSSet_of_strings(strings)
           /\ ppc' = IF parse_fails(strings) THEN "error" ELSE "done"
    /\ UNCHANGED <<ppos, psplit, pprinted>>
    /\ ParseFrame

ParseNext == ParseStart \/ ParseScan \/ ParseFinish

SpecParse == ParseInit /\ [][ParseNext]_vars

\* the values an item allows for its feature
Alts(item) ==
    CASE item.kind = "plus" -> {Atom("True")}
      [] item.kind = "minus" -> {Atom("False")}
      [] item.kind = "plusminus" -> {Atom("True"), Atom("False")}
      [] item.kind = "eq" -> {Atom(Str(item.vals[i])) : i \in DOMAIN item.vals}
      [] item.kind = "bare" -> {}

\* one frozen structure for every way of choosing an alternative for each
\* item of d
Product(d) ==
    LET names == {Str(d[i].feat) : i \in DOMAIN d}
        values == UNION {Alts(d[i]) : i \in DOMAIN d}
    IN  {freeze(MkFS(fm)) :
            fm \in {g \in [names -> values] :
                       \A i \in DOMAIN d : g[Str(d[i].feat)] \in Alts(d[i])}}

RECURSIVE ProductSize(_)
ProductSize(d) ==
    IF d = << >> THEN 1 ELSE Cardinality(Alts(d[1])) * ProductSize(Tail(d))

WellFormed(d) == \A i \in DOMAIN d : d[i].kind # "bare"

\* C14: FSSet.parse of a bracketed literal with disjunctions and +-feat
\* returns exactly one frozen structure per element of the Cartesian
\* product of the alternatives, with the other features as written.
C14_ParseIsProduct ==
    /\ ppc = "done" =>
           /\ pout = Product(pdesc)
           /\ Cardinality(pout) = ProductSize(pdesc)
           /\ \A fs \in pout : DeepFrozen(fs)
    /\ WellFormed(pdesc) => ppc # "error"

\* a literal with a +-feat and a two-way disjunction gave four structures
C14_Witness ==
    /\ ppc = "done"
    /\ \E i \in DOMAIN pdesc : pdesc[i].kind = "plusminus"
    /\ \E i \in DOMAIN pdesc : Len(pdesc[i].vals) = 2
    /\ Cardinality(pout) = 4

\* C15: FSSet.parse terminates on every input: every pass of the scanning
\* loop of split_rep consumes input or ends the scan, so that text that is
\* not a feature-value pair is not scanned forever.
C15_ParseTerminates ==
    [][(ppc = "split" /\ ppc' = "split") => ppos' > ppos]_vars

(***************************************************************************)
(* The cascade loader: FSTCascade.parse                                    *)
(***************************************************************************)

UNIFICATION_SR == "UNIFICATION_SR"
PROBABILITY_SR == "PROBABILITY_SR"
TROPICAL_SR == "TROPICAL_SR"

\* label.lower(), for the capitals that occur in the labels below
lower(label) ==
    [i \in DOMAIN label |->
        CASE label[i] = "U" -> "u"
          [] label[i] = "N" -> "n"
          [] label[i] = "I" -> "i"
          [] OTHER -> label[i]]

\* sub in label
Within(sub, label) ==
    \E i \in 0 .. Len(label) - Len(sub) :
        SubSeq(label, i + 1, i + Len(sub)) = sub

\* cascade.set_weighting(label), as the new value of cascade._weighting
set_weighting(weighting, label) ==
    LET l == lower(label)
    IN  IF Within(<<"u", "n", "i">>, l) THEN UNIFICATION_SR
        ELSE IF Within(<<"p", "r", "o", "b">>, l) THEN PROBABILITY_SR
        ELSE IF Within(<<"t", "r", "o", "p">>, l) THEN TROPICAL_SR
        ELSE weighting

\* FST.load(file, weighting=w): the transducer of the n-th reference line,
\* over the semiring it was loaded with
FST_load(n, w) == [kind |-> "FST", order |-> <<n>>, weighting |-> w]

\* 'FST' + str(n), the entry that stands for a transducer that was skipped
Placeholder(n) == [kind |-> "str", order |-> <<n>>, weighting |-> "none"]

\* the elements of a list
Elems(l) == {l[i] : i \in DOMAIN l}

\* the entry a reference line appends: a loaded transducer unless a
\* subcascade is selected that does not hold the index of the line
load_or_skip(fsts, subidx, w) ==
    IF subidx = << >> \/ Len(fsts) \in Elems(subidx)
    THEN FST_load(Len(fsts), w)
    ELSE Placeholder(Len(fsts))

\* the lines of the cascade descriptions: what follows 'weighting =', the
\* label and the indices of a 'cascade' line, '>fst<', '+lex+', other text
WeightingLabels ==
    {<<"U", "N", "I">>, <<"p", "r", "o", "b">>, <<"t", "r", "o", "p">>,
     <<"m", "a", "x">>}

SubcascLabels == {"L"}

IndexLists == {<<0>>, <<1>>, <<0, 1>>}

Line(k, arg, ind) == [kind |-> k, arg |-> arg, indices |-> ind]

CascLines ==
    {Line("weighting", w, << >>) : w \in WeightingLabels} \cup
    {Line("cascade", <<l>>, ind) : l \in SubcascLabels, ind \in IndexLists} \cup
    {Line("fst", << >>, << >>), Line("lex", << >>, << >>),
     Line("bad", << >>, << >>)}

CascDescs == UNION {[1 .. n -> CascLines] : n \in 0 .. MaxLines}

\* the subcasc argument: none, a label a description may define, one that
\* no description defines
SubcascArgs == {"", "L", "M"}

CInit ==
    /\ UIdle
    /\ SIdle
    /\ HInit
    /\ IIdle
    /\ EIdle
    /\ ParseIdle
    /\ GIdle
    /\ ZIdle
    /\ cdesc \in CascDescs
    /\ csubcasc \in SubcascArgs
    /\ cpos = 0
    /\ cweighting = UNIFICATION_SR
    /\ ccascades = NoCascades
    /\ csubidx = << >>
    /\ cfsts = << >>
    /\ cop = NoResult /\ cres = NoResult
    /\ cpc = "parse"

CascFrame == UNCHANGED <<cdesc, csubcasc, uvars, svars, hvars, ivars, evars,
                         pvars, gvars, zvars>>

\* the line that lines.pop() returns
NextLine(k) ==
    /\ cpc = "parse"
    /\ cpos < Len(cdesc)
    /\ cdesc[cpos + 1].kind = k
    /\ cpos' = cpos + 1

\* a line that WEIGHTING_RE matches
LineWeighting ==
    /\ NextLine("weighting")
    /\ cweighting' = set_weighting(cweighting, cdesc[cpos + 1].arg)
    /\ UNCHANGED <<ccascades, csubidx, cfsts, cop, cres, cpc>>
    /\ CascFrame

\* a line that SUBCASC_RE matches
LineSubcasc ==
    /\ NextLine("cascade")
    /\ LET label == cdesc[cpos + 1].arg[1]
           indices == cdesc[cpos + 1].indices
       IN  /\ ccascades' = [l \in DOMAIN ccascades \cup {label} |->
                               IF l = label THEN indices ELSE ccascades[l]]
           /\ csubidx' = IF label = csubcasc THEN indices ELSE csubidx
    /\ UNCHANGED <<cweighting, cfsts, cop, cres, cpc>>
    /\ CascFrame

\* a line that CASC_FST_RE matches
LineFST ==
    /\ NextLine("fst")
    /\ cfsts' = Append(cfsts, load_or_skip(cfsts, csubidx, cweighting))
    /\ UNCHANGED <<cweighting, ccascades, csubidx, cop, cres, cpc>>
    /\ CascFrame

\* a line that CASC_LEX_RE matches
LineLex ==
    /\ NextLine("lex")
    /\ cfsts' = Append(cfsts, load_or_skip(cfsts, csubidx, cweighting))
    /\ UNCHANGED <<cweighting, ccascades, csubidx, cop, cres, cpc>>
    /\ CascFrame

\* a line that no expression matches
LineBad ==
    /\ cpc = "parse"
    /\ cpos < Len(cdesc)
    /\ cdesc[cpos + 1].kind = "bad"
    /\ cpos' = cpos + 1
    /\ cres' = Raise("ValueError")
    /\ cpc' = "error"
    /\ UNCHANGED <<cweighting, ccascades, csubidx, cfsts, cop>>
    /\ CascFrame

\* no lines are left: parse returns the cascade
ParseReturn ==
    /\ cpc = "parse"
    /\ cpos = Len(cdesc)
    /\ cpc' = "loaded"
    /\ UNCHANGED <<cpos, cweighting, ccascades, csubidx, cfsts, cop, cres>>
    /\ CascFrame

\* the entries of the cascade that are loaded transducers
Loaded == {i \in DOMAIN cfsts : cfsts[i].kind = "FST"}

\* C16: after parse every FST and lexicon of the cascade was loaded with
\* the semiring that cascade.weighting() returns at the end of parsing,
\* wherever the weighting lines stand and however many there are.
C16_OneSemiring ==
    cpc = "loaded" => \A i \in Loaded : cfsts[i].weighting = cweighting

(***************************************************************************)
(* Operations on a parsed cascade                                          *)
(***************************************************************************)

\* the components of a sequence of transducers, in the order of the sequence
RECURSIVE Orders(_)
Orders(fsts) ==
    IF fsts = << >> THEN << >> ELSE fsts[1].order \o Orders(Tail(fsts))

\* FST.compose(fsts, label): the composition of the transducers in the
\* order of the list; composition is associative, so that a composed
\* transducer is known by the order of its components
FST_compose(fsts) ==
    IF \E i \in DOMAIN fsts : fsts[i].kind # "FST"
    THEN Raise("AttributeError")
    ELSE [kind |-> "FST", order |-> Orders(fsts),
          weighting |-> fsts[1].weighting]

\* one of the indices is past the end of the list
PastEnd(self, indices) == \E j \in DOMAIN indices : indices[j] >= Len(self)

\* [self[i] for i in indices]
Select(self, indices) == [j \in DOMAIN indices |-> self[indices[j] + 1]]

\* self[begin:end]
Slice(self, begin, end) == SubSeq(self, begin + 1, end)

\* compose(begin, end, first, last, subcasc); end is << >> for None and
\* first, last are NoResult for None
compose(self, cascades, begin, end, first, last, subcasc) ==
    IF Len(self) = 1 THEN self[1]
    ELSE IF subcasc # ""
    THEN IF subcasc \notin DOMAIN cascades THEN Raise("ValueError")
         ELSE IF PastEnd(self, cascades[subcasc]) THEN Raise("IndexError")
         ELSE FST_compose(Select(self, cascades[subcasc]))
    ELSE LET fsts0 == Slice(self, begin,
                            IF end # << >> THEN end[1] ELSE Len(self))
             fsts1 == IF first # NoResult THEN <<first>> \o fsts0 ELSE fsts0
             fsts2 == IF last # NoResult THEN Append(fsts1, last) ELSE fsts1
         IN  FST_compose(fsts2)

\* rev_compose(split_index, begin=0)
rev_compose(self, cascades, split_index) ==
    LET c1 == compose(self, cascades, split_index, << >>, NoResult, NoResult,
                      "")
    IN  IF IsRaise(c1) THEN c1
        ELSE compose(self, cascades, 0, <<split_index>>, NoResult, c1, "")

\* indices.reverse()
RECURSIVE Reverse(_)
Reverse(l) == IF l = << >> THEN << >> ELSE Append(Reverse(Tail(l)), l[1])

\* for n in indices[2:]: c = FST.compose([self[n], c])
RECURSIVE backwards_loop(_, _, _)
backwards_loop(self, rest, comp) ==
    IF rest = << >> \/ IsRaise(comp) THEN comp
    ELSE IF rest[1] >= Len(self) THEN Raise("IndexError")
    ELSE backwards_loop(self, Tail(rest),
                        FST_compose(<<self[rest[1] + 1], comp>>))

\* the body of compose_backwards from indices.reverse() on, for a list
backwards_from(self, indices) ==
    LET rev == Reverse(indices)
    IN  IF Len(rev) < 2 \/ rev[2] >= Len(self) \/ rev[1] >= Len(self)
        THEN Raise("IndexError")
        ELSE backwards_loop(self, Tail(Tail(rev)),
                            FST_compose(<<self[rev[2] + 1], self[rev[1] + 1]>>))

\* compose_backwards(indices=[], subcasc=None): without indices and
\* without a subcascade, indices is range(len(self)), which has no reverse()
compose_backwards(self, cascades, indices, subcasc) ==
    IF indices # << >> THEN backwards_from(self, indices)
    ELSE IF subcasc # ""
    THEN IF subcasc \notin DOMAIN cascades THEN Raise("KeyError")
         ELSE backwards_from(self, cascades[subcasc])
    ELSE Raise("AttributeError")

\* fst.transduce(x[0], x[1]): the list of [output, weight] pairs of a
\* transducer that has one accepting path for the input, or none
FST_transduce(fst, item, accepts) ==
    IF accepts THEN <<[string |-> item.string \o fst.order,
                       weight |-> item.weight]>>
    ELSE << >>

\* the loop of transduce over fsts[i ..]; a placeholder has no label
RECURSIVE transduce_loop(_, _, _, _)
transduce_loop(fsts, beh, i, result) ==
    IF i > Len(fsts) THEN [list |-> result]
    ELSE IF fsts[i].kind # "FST" THEN Raise("AttributeError")
    ELSE LET r == reduce_lists([j \in DOMAIN result |->
                                  FST_transduce(fsts[i], result[j], beh[i])])
         IN  IF r = << >> THEN [bool |-> FALSE]
             ELSE transduce_loop(fsts, beh, i + 1, r)

\* transduce(inp_string, inp_weight, fsts)
transduce(inp_string, inp_weight, fsts, beh) ==
    transduce_loop(fsts, beh, 1,
                   <<[string |-> inp_string, weight |-> inp_weight]>>)

Op(name, subcasc, k, indices, beh) ==
    [name |-> name, subcasc |-> subcasc, k |-> k, indices |-> indices,
     beh |-> beh]

\* a call on the cascade that parse returned
Callable == cpc = "loaded" /\ cfsts # << >>

CallFrame ==
    /\ cpc' = "done"
    /\ UNCHANGED <<cpos, cweighting, ccascades, csubidx, cfsts>>
    /\ CascFrame

\* cascade.compose(subcasc=subcasc)
Compose(subcasc) ==
    /\ Callable
    /\ cop' = Op("compose", subcasc, 0, << >>, << >>)
    /\ cres' = compose(cfsts, ccascades, 0, << >>, NoResult, NoResult, subcasc)
    /\ CallFrame

\* a transducer that is not in the cascade, given as first or last
OtherFST(n) == FST_load(0 - n, cweighting)

\* the values of begin, end, first and last: end is << >> for None, first
\* and last are NoResult for None
Begins == 0 .. Len(cfsts)
Ends == {<< >>} \cup {<<e>> : e \in 0 .. Len(cfsts)}
Firsts == {NoResult, OtherFST(1)}
Lasts == {NoResult, OtherFST(2)}

\* [first] + self[begin:end] + [last], first and last left out when None
ComposedList(self, begin, end, first, last) ==
    (IF first # NoResult THEN <<first>> ELSE << >>)
    \o Slice(self, begin, IF end # << >> THEN end[1] ELSE Len(self))
    \o (IF last # NoResult THEN <<last>> ELSE << >>)

\* cascade.compose(begin, end, first, last) for arguments that leave
\* something to compose
ComposeSlice(begin, end, first, last) ==
    /\ Callable
    /\ ComposedList(cfsts, begin, end, first, last) # << >>
    /\ cop' = [name |-> "compose_slice", subcasc |-> "", begin |-> begin,
               end |-> end, first |-> first, last |-> last]
    /\ cres' = compose(cfsts, ccascades, begin, end, first, last, "")
    /\ CallFrame

\* cascade.rev_compose(k)
RevCompose(k) ==
    /\ Callable
    /\ cop' = Op("rev_compose", "", k, << >>, << >>)
    /\ cres' = rev_compose(cfsts, ccascades, k)
    /\ CallFrame

\* cascade.compose_backwards(indices, subcasc)
ComposeBackwards(indices, subcasc) ==
    /\ Callable
    /\ cop' = Op("compose_backwards", subcasc, 0, indices, << >>)
    /\ cres' = compose_backwards(cfsts, ccascades, indices, subcasc)
    /\ CallFrame

\* cascade.transduce('', w, fsts) over the entries of the cascade, where
\* beh[i] says whether the i-th of them has output for what reaches it
Transduce(beh) ==
    /\ Callable
    /\ cop' = Op("transduce", "", 0, << >>, beh)
    /\ cres' = transduce(<< >>, "w", cfsts, beh)
    /\ CallFrame

CNext ==
    \/ LineWeighting
    \/ LineSubcasc
    \/ LineFST
    \/ LineLex
    \/ LineBad
    \/ ParseReturn
    \/ \E subcasc \in SubcascArgs : Compose(subcasc)
    \/ \E begin \in Begins, end \in Ends, first \in Firsts, last \in Lasts :
           ComposeSlice(begin, end, first, last)
    \/ \E k \in 1 .. Len(cfsts) - 1 : RevCompose(k)
    \/ \E indices \in {<< >>} \cup IndexLists, subcasc \in SubcascArgs :
           ComposeBackwards(indices, subcasc)
    \/ \E beh \in [DOMAIN cfsts -> BOOLEAN] : Transduce(beh)

SpecCascade == CInit /\ [][CNext]_vars

\* the number of reference lines ('>fst<' and '+lex+') of a description
RefLines(d) == Cardinality({i \in DOMAIN d : d[i].kind \in {"fst", "lex"}})

\* the description has a line 'cascade l = {...}'
Defines(d, l) == \E i \in DOMAIN d : d[i].kind = "cascade" /\ d[i].arg = <<l>>

\* C17: parse with subcasc=L of a description that defines L returns a
\* cascade with one entry for every reference line, a loaded transducer at
\* the indices in the index list of L and a placeholder at every other
\* index, wherever the 'cascade L = {...}' line stands.
C17_SubcascSelection ==
    (cpc = "loaded" /\ csubcasc # "" /\ Defines(cdesc, csubcasc)) =>
        /\ Len(cfsts) = RefLines(cdesc)
        /\ \A i \in DOMAIN cfsts :
               IF i - 1 \in Elems(ccascades[csubcasc])
               THEN cfsts[i].kind = "FST"
               ELSE cfsts[i] = Placeholder(i - 1)

\* the label given to an operation is one the cascade does not define
Undefined(l) == l # "" /\ l \notin DOMAIN ccascades

\* C18: a subcascade label that the cascade does not define is a fatal
\* error in parse, compose and compose_backwards, for every length of the
\* cascade: parse does not return a cascade, and the two compositions raise.
C18_UndefinedLabelFatal ==
    /\ cpc = "loaded" => ~Undefined(csubcasc)
    /\ (/\ cpc = "done"
        /\ cop.name \in {"compose", "compose_backwards"}
        /\ Undefined(cop.subcasc)) => IsRaise(cres)

\* every entry of the cascade is a loaded transducer
FullyLoaded == Loaded = DOMAIN cfsts

\* the components of the cascade in cascade order
CascadeOrder == [i \in DOMAIN cfsts |-> i - 1]

\* a call of compose(), rev_compose(k) or compose_backwards()
WholeCascade ==
    \/ cop.name = "compose" /\ cop.subcasc = ""
    \/ cop.name = "rev_compose"
    \/ cop.name = "compose_backwards" /\ cop.subcasc = ""
                                      /\ cop.indices = << >>

\* C19: on a fully loaded cascade of two or more transducers compose(),
\* rev_compose(k) for 0 < k < n and compose_backwards() each return the
\* composition of every transducer of the cascade, once and in cascade
\* order.
C19_SameOrder ==
    (cpc = "done" /\ FullyLoaded /\ Len(cfsts) >= 2 /\ WholeCascade) =>
        /\ ~IsRaise(cres)
        /\ cres.order = CascadeOrder

\* C20: transduce over transducers one of which has no output for the
\* input returns an empty list of [output, weight] pairs and does not raise.
C20_EmptyResultSet ==
    (/\ cpc = "done"
     /\ cop.name = "transduce"
     /\ FullyLoaded
     /\ \E i \in DOMAIN cop.beh : ~cop.beh[i]) => cres = [list |-> << >>]

(***************************************************************************)
(* String-set labels (casc.py)                                             *)
(***************************************************************************)

\* the orders in which the elements of a set can be iterated
Orderings(S) ==
    {f \in [1 .. Cardinality(S) -> S] :
        \A i, j \in 1 .. Cardinality(S) : i # j => f[i] # f[j]}

\* sep.join(S) for a set S: one string for every iteration order
JoinSet(S, sep) == {Join(f, sep) : f \in Orderings(S)}

\* the labels simplify_difference_intersection_labels can return
simplify_difference_intersection_labels(label1, label2) ==
    LET labels1 == Split(label1, "-")
        labels2 == Split(label2, "-")
        set1 == IF Len(labels1) > 1 THEN Elems(Split(labels1[2], ",")) ELSE {}
        set2 == IF Len(labels2) > 1 THEN Elems(Split(labels2[2], ",")) ELSE {}
    IN  IF labels1[1] = labels2[1]
        THEN {labels1[1] \o <<"-">> \o j : j \in JoinSet(set1 \cup set2, <<",">>)}
        ELSE {label1 \o <<"&">> \o label2}

\* the labels simplify_intersection_label can return
simplify_intersection_label(label1, label2) ==
    IF "&" \notin Chars(label1) /\ "&" \notin Chars(label2)
    THEN simplify_difference_intersection_labels(label1, label2)
    ELSE JoinSet(Elems(Split(label1, "&")) \cup Elems(Split(label2, "&")),
                 <<"&">>)

\* a string set as a value
StringSet(S) == [set |-> S]

\* self.stringset(label): self._stringsets.get(label, None)
stringset(sets, label) ==
    IF label \in DOMAIN sets THEN StringSet(sets[label]) ELSE PyNone

\* the truth value of a string set or None
Truthy(v) == "set" \in DOMAIN v /\ v.set # {}

\* ss = self.stringset(label); if not ss: ss = set(label.split(','))
set_or_strings(sets, label) ==
    IF Truthy(stringset(sets, label)) THEN sets[label]
    ELSE Elems(Split(label, ","))

\* subtract_strings(label1, label2)
subtract_strings(sets, label1, label2) ==
    set_or_strings(sets, label1) \ set_or_strings(sets, label2)

\* diff_stringset(label)
diff_stringset(sets, label) ==
    IF Truthy(stringset(sets, label)) THEN stringset(sets, label)
    ELSE LET labels == Split(label, "-")
         IN  IF Len(labels) < 2 THEN Raise("IndexError")
             ELSE StringSet(subtract_strings(sets, labels[1], labels[2]))

\* intersect_stringsets(labels), labels not empty
intersect_stringsets(sets, labels) ==
    LET diffs == [i \in DOMAIN labels |-> diff_stringset(sets, labels[i])]
    IN  IF \E i \in DOMAIN diffs : IsRaise(diffs[i]) THEN Raise("IndexError")
        ELSE StringSet({e \in diffs[1].set :
                           \A i \in DOMAIN diffs : e \in diffs[i].set})

\* generate_stringset(label)
generate_stringset(sets, label) ==
    IF Truthy(stringset(sets, label)) THEN stringset(sets, label)
    ELSE IF "-" \in Chars(label) \/ "&" \in Chars(label)
    THEN intersect_stringsets(sets, Split(label, "&"))
    ELSE PyNone

\* the names of the stored string sets and the strings they hold
SetNames == {<<"A">>, <<"B">>}

SetStrings == {<<"a">>, <<"b">>}

\* a stored set, a difference L1-L2 or L1-s, an intersection
DiffLabels ==
    SetNames \cup
    {n \o <<"-">> \o t : n \in SetNames, t \in SetNames \cup SetStrings}

SetLabels == DiffLabels \cup {<<"A", "&", "B">>}

LInit ==
    /\ UIdle
    /\ SIdle
    /\ HInit
    /\ IIdle
    /\ EIdle
    /\ ParseIdle
    /\ CIdle
    /\ GIdle
    /\ MIdle
    /\ KIdle
    /\ NIdle
    /\ ll1 \in SetLabels
    /\ ll2 \in SetLabels
    /\ lsets \in [SetNames -> SUBSET SetStrings]
    /\ lab12 = << >> /\ lab21 = << >> /\ lgen = NoResult
    /\ lpc = "start"

LabelFrame == UNCHANGED <<ll1, ll2, lsets, uvars, svars, hvars, ivars, evars,
                          pvars, cvars, gvars, mvars, kvars, nvars>>

\* the label of the intersection, asked for in both orders
Simplify ==
    /\ lpc = "start"
    /\ lab12' \in simplify_intersection_label(ll1, ll2)
    /\ lab21' \in simplify_intersection_label(ll2, ll1)
    /\ lpc' = "simplified"
    /\ UNCHANGED lgen
    /\ LabelFrame

\* the string set of the simplified label
Generate ==
    /\ lpc = "simplified"
    /\ lgen' = generate_stringset(lsets, lab12)
    /\ lpc' = "done"
    /\ UNCHANGED <<lab12, lab21>>
    /\ LabelFrame

LNext == Simplify \/ Generate

SpecLabels == LInit /\ [][LNext]_vars

\* C21: simplify_intersection_label returns the same label for (l1, l2)
\* and for (l2, l1).
C21_SimplifyCanonical == lpc # "start" => lab12 = lab21

\* C28: for stored string sets and difference expressions l1 and l2 the
\* string set of the simplified intersection label is the intersection of
\* the string sets of l1 and l2.
C28_SimplifiedDenotesIntersection ==
    (/\ lpc = "done"
     /\ ll1 \in DiffLabels /\ ll2 \in DiffLabels
     /\ Truthy(generate_stringset(lsets, ll1))
     /\ Truthy(generate_stringset(lsets, ll2))) =>
        lgen = StringSet(generate_stringset(lsets, ll1).set \cap
                         generate_stringset(lsets, ll2).set)

(***************************************************************************)
(* Morphotactic descriptions (mtax.py, MTax.parse)                         *)
(***************************************************************************)
DFLT_FINAL == <<"f", "i", "n">>
NO_INPUT == <<"-", "-">>

\* what a regular expression returns: its groups, or NoResult for None
Matched(groups) == [groups |-> groups]
IsMatch(m) == "groups" \in DOMAIN m

\* \[.*?\]$ (least = 0) or \[.+?\]$ (least = 1) matches line from position p
BracketsToEnd(line, p, least) ==
    /\ p <= Len(line)
    /\ line[p] = "["
    /\ Len(line) >= p + 1 + least
    /\ line[Len(line)] = "]"

\* STATE_RE.match(line): \s*\$\s+(\S+)$
STATE_RE(line) ==
    LET d == SpanEnd(line, 1, Blank)
        w == SpanEnd(line, d + 1, Blank)
    IN  IF /\ d <= Len(line) /\ line[d] = "$"
           /\ w > d + 1 /\ w <= Len(line)
           /\ FindFirst(line, w, Blank) = Len(line) + 1
        THEN Matched(<<From(line, w)>>)
        ELSE NoResult

\* the positions of a '+' that can close the label of LEX_RE
lex_closings(line, d) ==
    {k \in d + 1 .. Len(line) :
        /\ line[k] = "+"
        /\ SpanEnd(line, k + 1, Blank) > k + 1
        /\ BracketsToEnd(line, SpanEnd(line, k + 1, Blank), 0)}

\* LEX_RE.match(line): (\s*?)\+(.*?)\+\s+(\[.*?\])$
LEX_RE(line) ==
    LET d == SpanEnd(line, 1, Blank)
    IN  IF d <= Len(line) /\ line[d] = "+" /\ lex_closings(line, d) # {}
        THEN LET k == CHOOSE i \in lex_closings(line, d) :
                          \A j \in lex_closings(line, d) : i <= j
             IN  Matched(<<Upto(line, d - 1), SubSeq(line, d + 1, k - 1),
                           From(line, SpanEnd(line, k + 1, Blank))>>)
        ELSE NoResult

\* FS_RE.match(line): (\s*)(\[.+?\])$
FS_RE(line) ==
    LET d == SpanEnd(line, 1, Blank)
    IN  IF BracketsToEnd(line, d, 1)
        THEN Matched(<<Upto(line, d - 1), From(line, d)>>)
        ELSE NoResult

\* PATH_RE.match(line): (\s*?)(\S+)\s+(\[.*?\])$
PATH_RE(line) ==
    LET d == SpanEnd(line, 1, Blank)
        r == FindFirst(line, d, Blank)
        w == SpanEnd(line, r, Blank)
    IN  IF d <= Len(line) /\ r <= Len(line) /\ BracketsToEnd(line, w, 0)
        THEN Matched(<<Upto(line, d - 1), SubSeq(line, d, r - 1), From(line, w)>>)
        ELSE NoResult

\* PATH_NO_FS_RE.match(line): (\s*?)(\S+)$
PATH_NO_FS_RE(line) ==
    LET d == SpanEnd(line, 1, Blank)
    IN  IF d <= Len(line) /\ FindFirst(line, d, Blank) = Len(line) + 1
        THEN Matched(<<Upto(line, d - 1), From(line, d)>>)
        ELSE NoResult

\* where the rest of a shortcut begins when its (\S+) ends before position e
\* of the run of non-blank characters that ends before r
shortcut_rest(line, e, r) == IF e = r THEN SpanEnd(line, e, Blank) ELSE e

\* the ends (\S+) can have in SHORTCUT_FS_RE, the state beginning at j
shortcut_fs_ends(line, j) ==
    {e \in j + 1 .. FindFirst(line, j, Blank) :
        BracketsToEnd(line, shortcut_rest(line, e, FindFirst(line, j, Blank)), 1)}

\* the ends (\S+) can have in SHORTCUT_LEX_RE
shortcut_lex_ends(line, j) ==
    {e \in j + 1 .. FindFirst(line, j, Blank) :
        LET w == shortcut_rest(line, e, FindFirst(line, j, Blank))
        IN  /\ w < Len(line)
            /\ line[w] = "+"
            /\ line[Len(line)] = "+"}

\* the position after \s*->\s* at the start of line, 0 when it does not match
arrow(line) ==
    LET d == SpanEnd(line, 1, Blank)
    IN  IF d + 1 <= Len(line) /\ line[d] = "-" /\ line[d + 1] = ">"
        THEN SpanEnd(line, d + 2, Blank)
        ELSE 0

Greatest(S) == CHOOSE i \in S : \A j \in S : j <= i

\* SHORTCUT_FS_RE.match(line): \s*->\s*(\S+)\s*(\[.+?\])$
SHORTCUT_FS_RE(line) ==
    LET j == arrow(line)
    IN  IF j > 0 /\ shortcut_fs_ends(line, j) # {}
        THEN LET e == Greatest(shortcut_fs_ends(line, j))
             IN  Matched(<<SubSeq(line, j, e - 1),
                           From(line, shortcut_rest(line, e, FindFirst(line, j, Blank)))>>)
        ELSE NoResult

\* SHORTCUT_LEX_RE.match(line): \s*->\s*(\S+)\s*\+(.*?)\+$
SHORTCUT_LEX_RE(line) ==
    LET j == arrow(line)
    IN  IF j > 0 /\ shortcut_lex_ends(line, j) # {}
        THEN LET e == Greatest(shortcut_lex_ends(line, j))
                 w == shortcut_rest(line, e, FindFirst(line, j, Blank))
             IN  Matched(<<SubSeq(line, j, e - 1), SubSeq(line, w + 1, Len(line) - 1)>>)
        ELSE NoResult

\* the first of the regular expressions of MTax.parse that matches line, in
\* the order in which parse tries them
line_form(line) ==
    IF IsMatch(STATE_RE(line)) THEN "state"
    ELSE IF IsMatch(LEX_RE(line)) THEN "lex"
    ELSE IF IsMatch(FS_RE(line)) THEN "fs"
    ELSE IF IsMatch(PATH_RE(line)) THEN "path"
    ELSE IF IsMatch(SHORTCUT_FS_RE(line)) THEN "shortcut_fs"
    ELSE IF IsMatch(SHORTCUT_LEX_RE(line)) THEN "shortcut_lex"
    ELSE IF IsMatch(PATH_NO_FS_RE(line)) THEN "bare"
    ELSE "bad"

\* line.split('#')[0].rstrip()
uncomment(raw) == rstrip(Upto(raw, FindFirst(raw, 1, {"#"}) - 1))

\* an FSSet and a string, as the weight of a path or of a shortcut
FSSetWeight(fsset) == [fsset |-> fsset]
PyStr(s) == [str |-> s]

\* FSSet(*strings) for the lists proc_fv returned
FSSet_of_lists(procs) ==
    LET strings == reduce_lists([j \in DOMAIN procs |-> procs[j].strings])
    IN  IF \E j \in DOMAIN procs : procs[j].loops
        THEN [outcome |-> "loops", fsset |-> {}]
        ELSE IF parse_fails(strings)
        THEN [outcome |-> "raise", fsset |-> {}]
        ELSE [outcome |-> "ok", fsset |-> FSSet_init(parsed_items(strings))]

\* [FSSet.proc_fv(s) for s in strings]
proc_fvs(strings) == [j \in DOMAIN strings |-> proc_fv(strip(strings[j]))]

\* UNIFICATION_SR.parse(s) for a string s that is not empty, FSSet.parse(s):
\* the set, unless the parser raises or split_rep never returns
FSSet_parse(string) ==
    IF string = <<"[", "]">>
    THEN [outcome |-> "ok", fsset |-> TOPFSS]
    ELSE FSSet_of_lists(proc_fvs(Split(string, ";")))

\* mutant: the pending structure also goes to a path that is not deeper
pending_applies_same_depth(indentation, current_indent, current_fs) ==
    /\ Len(indentation) >= current_indent
    /\ IsFS(current_fs)
    /\ Keys(current_fs) # {}

\* len(indentation) > current_indent and current_fs: None and a structure
\* without features are false
pending_applies(indentation, current_indent, current_fs) ==
    /\ Len(indentation) > current_indent
    /\ IsFS(current_fs)
    /\ Keys(current_fs) # {}

\* current_state[1]['paths'].append((in_string, weight))
add_path(states, in_string, weight) ==
    [states EXCEPT ![Len(states)].paths = Append(@, <<in_string, weight>>)]

\* current_state[1]['shortcuts'].append((next_state, wt_file))
add_shortcut(states, next_state, wt_file) ==
    [states EXCEPT ![Len(states)].shortcuts = Append(@, <<next_state, wt_file>>)]

\* the transducer an MTax is made for: no state yet
NewFST == [states |-> {}, initial |-> PyNone, finals |-> {}, arcs |-> {}]

\* FST.add_state(label)
FST_add_state(fst, label) == [fst EXCEPT !.states = @ \cup {label}]

\* FST._set_initial_state(label)
FST_set_initial_state(fst, label) == [fst EXCEPT !.initial = PyStr(label)]

\* FST.set_final(label)
FST_set_final(fst, label) == [fst EXCEPT !.finals = @ \cup {label}]

\* the lines of a description: states, pending structures (one of them
\* without features), paths with and without a set (one of them without
\* input), a lexicon, shortcuts,
\* a line no expression matches, a line that is continued and a comment
MtaxLines ==
    {<<"$", " ", "s">>,
     <<"$", " ", "t">>,
     <<" ", "[", "+", "x", "]">>,
     <<"[", " ", "]">>,
     <<"a", "b", " ", "[", "+", "x", "]">>,
     <<" ", " ", "-", "-", " ", "[", "-", "x", "]">>,
     <<" ", " ", "a", "b">>,
     <<" ", "+", "f", "+", " ", "[", "+", "n", "]">>,
     <<"-", ">", " ", "t", " ", "[", "+", "x", "]">>,
     <<"-", ">", " ", "t", " ", "+", "f", "+">>,
     <<"a", " ", "b">>,
     <<"a", "b", ";">>,
     <<"#", "b">>}

\* MTax(fst).parse(label, s) begins
MInit ==
    /\ UIdle
    /\ SIdle
    /\ HInit
    /\ IIdle
    /\ EIdle
    /\ ParseIdle
    /\ CIdle
    /\ GIdle
    /\ LIdle
    /\ KIdle
    /\ NIdle
    /\ mtext = << >> /\ mparsed = << >> /\ mpending = << >> /\ mstates = << >>
    /\ mfs = PyNone /\ mindent = 0
    /\ mfst = NewFST
    /\ mpc = "parse"

MtaxFrame == UNCHANGED <<uvars, svars, hvars, ivars, evars, pvars, cvars,
                         gvars, lvars, kvars, nvars>>

\* the line parse hands to the regular expressions when it reads raw
Joined(raw) == mpending \o uncomment(raw)

\* parse reads raw and hands it, with the pending lines before it, to the
\* regular expressions, the first of which to match is form
Handed(raw, form) ==
    /\ mpc = "parse"
    /\ Len(mtext) < MaxMtax
    /\ uncomment(raw) # << >>
    /\ uncomment(raw)[Len(uncomment(raw))] # ";"
    /\ line_form(Joined(raw)) = form
    /\ mtext' = Append(mtext, raw)
    /\ mparsed' = Append(mparsed, Joined(raw))
    /\ mpending' = << >>

\* the next line is empty once its comment is removed
MSkip ==
    \E raw \in MtaxLines :
        /\ mpc = "parse"
        /\ Len(mtext) < MaxMtax
        /\ uncomment(raw) = << >>
        /\ mtext' = Append(mtext, raw)
        /\ UNCHANGED <<mparsed, mpending, mstates, mfs, mindent, mfst, mpc>>
        /\ MtaxFrame

\* the next line ends in ';'
MContinue ==
    \E raw \in MtaxLines :
        /\ mpc = "parse"
        /\ Len(mtext) < MaxMtax
        /\ uncomment(raw) # << >>
        /\ uncomment(raw)[Len(uncomment(raw))] = ";"
        /\ mtext' = Append(mtext, raw)
        /\ mpending' = mpending \o uncomment(raw)
        /\ UNCHANGED <<mparsed, mstates, mfs, mindent, mfst, mpc>>
        /\ MtaxFrame

\* '$ label': a new state, initial if it is the first
MState ==
    \E raw \in MtaxLines :
        /\ Handed(raw, "state")
        /\ LET label == STATE_RE(Joined(raw)).groups[1]
               added == FST_add_state(mfst, label)
           IN  /\ mfst' = IF mstates = << >>
                          THEN FST_set_initial_state(added, label)
                          ELSE added
               /\ mstates' = Append(mstates, [label |-> label, paths |-> << >>,
                                              shortcuts |-> << >>])
        /\ mfs' = PyNone
        /\ mindent' = 0
        /\ UNCHANGED mpc
        /\ MtaxFrame

\* the weight of a path with a set, or why parse ends in the line
path_weight(indentation, fss) ==
    LET weight == FSSet_parse(fss)
    IN  IF weight.outcome # "ok" THEN weight
        ELSE IF pending_applies(indentation, mindent, mfs)
        THEN [outcome |-> "ok", fsset |-> FSSet_update(weight.fsset, mfs)]
        ELSE weight

\* a path (in_string, weight) is appended to the current state, if there is
\* one and the weight was parsed
PathAdded(in_string, weight) ==
    /\ mpc' = IF weight.outcome = "loops" THEN "hung"
              ELSE IF weight.outcome = "raise" \/ mstates = << >> THEN "raised"
              ELSE "parse"
    /\ mstates' = IF weight.outcome = "ok" /\ mstates # << >>
                  THEN add_path(mstates, in_string, FSSetWeight(weight.fsset))
                  ELSE mstates

\* '+label+ [FSS]': a lexicon
MLex ==
    \E raw \in MtaxLines :
        /\ Handed(raw, "lex")
        /\ LET m == LEX_RE(Joined(raw)).groups
           IN  PathAdded(m[2] \o <<".", "l", "e", "x">>, path_weight(m[1], m[3]))
        /\ UNCHANGED <<mfs, mindent, mfst>>
        /\ MtaxFrame

\* '[...]': the structure for the paths that follow
MFS ==
    \E raw \in MtaxLines :
        /\ Handed(raw, "fs")
        /\ LET m == FS_RE(Joined(raw)).groups
               weight == FeatStructParser_parse(m[2])
           IN  IF IsRaise(weight)
               THEN mpc' = "raised" /\ UNCHANGED <<mfs, mindent>>
               ELSE mfs' = weight /\ mindent' = Len(m[1]) /\ UNCHANGED mpc
        /\ UNCHANGED <<mstates, mfst>>
        /\ MtaxFrame

\* 'in_string [FSS]': a path
MPath ==
    \E raw \in MtaxLines :
        /\ Handed(raw, "path")
        /\ LET m == PATH_RE(Joined(raw)).groups
           IN  PathAdded(m[2], path_weight(m[1], m[3]))
        /\ UNCHANGED <<mfs, mindent, mfst>>
        /\ MtaxFrame

\* '-> state [FSS]': a shortcut, the set is kept as it is written
MShortcutFS ==
    \E raw \in MtaxLines :
        /\ Handed(raw, "shortcut_fs")
        /\ LET m == SHORTCUT_FS_RE(Joined(raw)).groups
           IN  IF mstates = << >>
               THEN mpc' = "raised" /\ UNCHANGED mstates
               ELSE /\ mstates' = add_shortcut(mstates, m[1], PyStr(m[2]))
                    /\ UNCHANGED mpc
        /\ UNCHANGED <<mfs, mindent, mfst>>
        /\ MtaxFrame

\* '-> state +label+': a shortcut through a lexicon
MShortcutLex ==
    \E raw \in MtaxLines :
        /\ Handed(raw, "shortcut_lex")
        /\ LET m == SHORTCUT_LEX_RE(Joined(raw)).groups
           IN  IF mstates = << >>
               THEN mpc' = "raised" /\ UNCHANGED mstates
               ELSE /\ mstates' = add_shortcut(mstates, m[1],
                                     PyStr(m[2] \o <<".", "l", "e", "x">>))
                    /\ UNCHANGED mpc
        /\ UNCHANGED <<mfs, mindent, mfst>>
        /\ MtaxFrame

\* 'in_string': a path without a set; FSSet(current_fs) freezes current_fs
MBare ==
    \E raw \in MtaxLines :
        /\ Handed(raw, "bare")
        /\ LET m == PATH_NO_FS_RE(Joined(raw)).groups
               applies == pending_applies(m[1], mindent, mfs)
           IN  /\ mfs' = IF applies THEN freeze(mfs) ELSE mfs
               /\ IF mstates = << >>
                  THEN mpc' = "raised" /\ UNCHANGED mstates
                  ELSE /\ mstates' = add_path(mstates, m[2],
                                        IF applies
                                        THEN FSSetWeight(FSSet_init({mfs}))
                                        ELSE PyStr(<< >>))
                       /\ UNCHANGED mpc
        /\ UNCHANGED <<mindent, mfst>>
        /\ MtaxFrame

\* no expression matches: ValueError("bad line")
MBad ==
    \E raw \in MtaxLines :
        /\ Handed(raw, "bad")
        /\ mpc' = "raised"
        /\ UNCHANGED <<mstates, mfs, mindent, mfst>>
        /\ MtaxFrame

\* there is no line left: parse returns
MReturn ==
    /\ mpc = "parse"
    /\ mpc' = "parsed"
    /\ UNCHANGED <<mtext, mparsed, mpending, mstates, mfs, mindent, mfst>>
    /\ MtaxFrame

(***************************************************************************)
(* MTax.compile (mtax.py); the transducer's own operations are in fst.py   *)
(***************************************************************************)
\* FST.add_arc(src, dst, in_string, out_string, weight=weight)
FST_add_arc(fst, src, dst, in_string, out_string, weight) ==
    [fst EXCEPT !.arcs = @ \cup {[src |-> src, dst |-> dst, instr |-> in_string,
                                  outstr |-> out_string, weight |-> weight,
                                  lex |-> FALSE]}]

\* FST._make_mult_arcs(in_string, out_string, src, dst, weight, seg_units):
\* arcs from src to dst that read the units of in_string one after the
\* other, kept as one arc that reads in_string
FST_make_mult_arcs(fst, in_string, out_string, src, dst, weight) ==
    FST_add_arc(fst, src, dst, in_string, out_string, weight)

\* FST.insert(fst1, src, dst, weight=weight): the transducer of the lexicon
\* label between src and dst
FST_insert(fst, label, src, dst, weight) ==
    [fst EXCEPT !.arcs = @ \cup {[src |-> src, dst |-> dst, instr |-> label,
                                  outstr |-> << >>, weight |-> weight,
                                  lex |-> TRUE]}]

\* '.lex' in in_string
HasDotLex(s) ==
    \E i \in 1 .. Len(s) - 3 : SubSeq(s, i, i + 3) = <<".", "l", "e", "x">>

\* in_string.split('.')[0]
lex_label(s) == Upto(s, FindFirst(s, 1, {"."}) - 1)

\* mutant: the paths of a state lead back to the state itself
next_dest_same(states, index) == states[index].label

\* dest = self.states[index+1][0]
next_dest(states, index) == states[index + 1].label

\* what compile does with one path of the state src
compile_path(fst, src, dest, path) ==
    IF HasDotLex(path[1])
    THEN FST_insert(fst, lex_label(path[1]), src, dest, path[2])
    ELSE IF path[1] = NO_INPUT
    THEN FST_add_arc(fst, src, dest, << >>, << >>, path[2])
    ELSE FST_make_mult_arcs(fst, path[1], << >>, src, dest, path[2])

\* what compile does with one shortcut of the state src
compile_shortcut(fst, src, shortcut) ==
    IF HasDotLex(shortcut[2].str)
    THEN FST_insert(fst, lex_label(shortcut[2].str), src, shortcut[1],
                    FSSetWeight(TOPFSS))
    ELSE FST_add_arc(fst, src, shortcut[1], << >>, << >>, shortcut[2])

RECURSIVE compile_paths(_, _, _, _)
compile_paths(fst, src, dest, paths) ==
    IF paths = << >> THEN fst
    ELSE compile_paths(compile_path(fst, src, dest, Head(paths)), src, dest,
                       Tail(paths))

RECURSIVE compile_shortcuts(_, _, _)
compile_shortcuts(fst, src, shortcuts) ==
    IF shortcuts = << >> THEN fst
    ELSE compile_shortcuts(compile_shortcut(fst, src, Head(shortcuts)), src,
                           Tail(shortcuts))

\* the loop of compile over enumerate(self.states[:-1]), from index on
RECURSIVE compile_states(_, _, _)
compile_states(fst, states, index) ==
    IF index >= Len(states) THEN fst
    ELSE compile_states(
             compile_shortcuts(
                 compile_paths(fst, states[index].label, next_dest(states, index),
                               states[index].paths),
                 states[index].label, states[index].shortcuts),
             states, index + 1)

\* self.states with the final state compile appends
with_final(states) ==
    Append(states, [label |-> DFLT_FINAL, paths |-> << >>, shortcuts |-> << >>])

\* MTax.compile()
MCompile ==
    /\ mpc = "parsed"
    /\ mstates' = with_final(mstates)
    /\ mfst' = compile_states(
                   FST_set_final(FST_add_state(mfst, DFLT_FINAL), DFLT_FINAL),
                   with_final(mstates), 1)
    /\ mpc' = "compiled"
    /\ UNCHANGED <<mtext, mparsed, mpending, mfs, mindent>>
    /\ MtaxFrame

MNext ==
    \/ MSkip
    \/ MContinue
    \/ MState
    \/ MLex
    \/ MFS
    \/ MPath
    \/ MShortcutFS
    \/ MShortcutLex
    \/ MBare
    \/ MBad
    \/ MReturn
    \/ MCompile

SpecMTax == MInit /\ [][MNext]_vars

\* the lines of a text that are not empty once their comments are removed
NotEmpty(line) == line # << >>
Contents(text) == SelectSeq([j \in DOMAIN text |-> uncomment(text[j])], NotEmpty)

\* the lines of a text with every line that ends in ';' joined with the
\* lines after it, up to the first one that does not end in ';'
RECURSIVE JoinedLines(_, _)
JoinedLines(contents, begun) ==
    IF contents = << >>
    THEN IF begun = << >> THEN << >> ELSE <<begun>>
    ELSE IF Head(contents)[Len(Head(contents))] = ";"
    THEN JoinedLines(Tail(contents), begun \o Head(contents))
    ELSE <<begun \o Head(contents)>> \o JoinedLines(Tail(contents), << >>)

\* C24: when parse returns, the lines it has handed to its regular
\* expressions are the non-empty lines of the text, each line ending in ';'
\* joined with the lines after it: nothing is left out, a last line ending
\* in ';' included.
C24_NoLineDropped ==
    mpc = "parsed" => mparsed = JoinedLines(Contents(mtext), << >>)

\* the lines of mparsed that are paths, their state line and the '[...]'
\* lines between the two
IsPathLine(j) == line_form(mparsed[j]) \in {"lex", "path", "bare"}

StateLines == {j \in DOMAIN mparsed : line_form(mparsed[j]) = "state"}

StateLineOf(j) == Greatest({k \in StateLines : k < j})

PendingLines(j) ==
    {k \in StateLineOf(j) + 1 .. j - 1 : line_form(mparsed[k]) = "fs"}

Indentation(line) == SpanEnd(line, 1, Blank) - 1

\* the structure of the most recent '[...]' line before the path line j
PendingOf(j) ==
    FeatStructParser_parse(FS_RE(mparsed[Greatest(PendingLines(j))]).groups[2])

\* the path line j is deeper than the most recent '[...]' line of its state
Deeper(j) ==
    /\ PendingLines(j) # {}
    /\ Indentation(mparsed[j]) > Indentation(mparsed[Greatest(PendingLines(j))])

\* the set the path line j is written with, none for a path without one
OwnSet(j) ==
    IF line_form(mparsed[j]) = "lex" THEN FSSet_parse(LEX_RE(mparsed[j]).groups[3]).fsset
    ELSE IF line_form(mparsed[j]) = "path" THEN FSSet_parse(PATH_RE(mparsed[j]).groups[3]).fsset
    ELSE {}

\* the features of pending added to own, the values of own kept
Received(own, pending) ==
    freeze(MkFS([k \in Keys(own) \cup Keys(pending) |->
                    IF k \in Keys(own) THEN own.feats[k] ELSE pending.feats[k]]))

\* the weight of the path line j when it does, or does not, receive the
\* pending structure
WeightWith(j) ==
    IF line_form(mparsed[j]) = "bare"
    THEN FSSetWeight({freeze(PendingOf(j))})
    ELSE FSSetWeight({Received(own, PendingOf(j)) : own \in OwnSet(j)})

WeightWithout(j) ==
    IF line_form(mparsed[j]) = "bare" THEN PyStr(<< >>)
    ELSE FSSetWeight(OwnSet(j))

\* the paths of all states and the path lines, in the order of the text
RECURSIVE AllPaths(_)
AllPaths(states) ==
    IF states = << >> THEN << >>
    ELSE Head(states).paths \o AllPaths(Tail(states))

PathLineNumbers == {j \in DOMAIN mparsed : IsPathLine(j)}

\* the n-th path line
RECURSIVE NthOf(_, _)
NthOf(S, n) ==
    LET least == CHOOSE i \in S : \A j \in S : i <= j
    IN  IF n = 1 THEN least ELSE NthOf(S \ {least}, n - 1)

Parsing == mpc \in {"parse", "parsed"}

\* C23 as stated: a path or lexicon line receives the pending structure
\* exactly if a '[...]' line came before it in its state and the path is
\* indented deeper than the most recent such line, whatever that structure
\* is; where both define a feature the path's value is kept.
C23_PendingExactlyWhenDeeper ==
    Parsing =>
        /\ Len(AllPaths(mstates)) = Cardinality(PathLineNumbers)
        /\ \A n \in 1 .. Len(AllPaths(mstates)) :
               AllPaths(mstates)[n][2] =
                   IF Deeper(NthOf(PathLineNumbers, n))
                   THEN WeightWith(NthOf(PathLineNumbers, n))
                   ELSE WeightWithout(NthOf(PathLineNumbers, n))

\* the pending structure of the path line j has a feature
PendingHasFeature(j) == PendingLines(j) # {} /\ Keys(PendingOf(j)) # {}

\* C23, amended: the path receives the pending structure exactly if, in
\* addition, that structure has at least one feature.
C23_PendingWithFeaturesWhenDeeper ==
    Parsing =>
        /\ Len(AllPaths(mstates)) = Cardinality(PathLineNumbers)
        /\ \A n \in 1 .. Len(AllPaths(mstates)) :
               AllPaths(mstates)[n][2] =
                   IF Deeper(NthOf(PathLineNumbers, n))
                      /\ PendingHasFeature(NthOf(PathLineNumbers, n))
                   THEN WeightWith(NthOf(PathLineNumbers, n))
                   ELSE WeightWithout(NthOf(PathLineNumbers, n))

\* a path has kept its own value of a feature the pending structure
\* defines too, and a path without a set has received the structure
C23_Witness ==
    /\ Parsing
    /\ \E n \in 1 .. Len(AllPaths(mstates)) :
           LET j == NthOf(PathLineNumbers, n)
           IN  /\ Deeper(j) /\ PendingHasFeature(j)
               /\ line_form(mparsed[j]) = "path"
               /\ \E own \in OwnSet(j) : Keys(own) \cap Keys(PendingOf(j)) # {}
    /\ \E n \in 1 .. Len(AllPaths(mstates)) :
           LET j == NthOf(PathLineNumbers, n)
           IN  /\ ~Deeper(j) /\ PendingLines(j) # {}

\* the labels of the '$' lines, in the order of the text
DeclaredLabels ==
    [n \in 1 .. Cardinality(StateLines) |->
        STATE_RE(mparsed[NthOf(StateLines, n)]).groups[1]]

\* no two declared states have the same label and none is labelled 'fin'
DistinctLabels ==
    /\ \A i, j \in DOMAIN DeclaredLabels :
           i # j => DeclaredLabels[i] # DeclaredLabels[j]
    /\ \A i \in DOMAIN DeclaredLabels : DeclaredLabels[i] # DFLT_FINAL

\* arc is what a path of the state src becomes: it leads to dst, carries
\* the path's weight and reads the path's string or goes through its lexicon
ChainArc(arc, src, dst, path) ==
    /\ arc.src = src
    /\ arc.dst = dst
    /\ arc.weight = path[2]
    /\ IF arc.lex THEN path[1] = arc.instr \o <<".", "l", "e", "x">>
       ELSE arc.instr = IF path[1] = NO_INPUT THEN << >> ELSE path[1]

\* arc is what a shortcut of the state src becomes
ShortcutArc(arc, src, shortcut) ==
    /\ arc.src = src
    /\ arc.dst = shortcut[1]
    /\ arc.instr = IF arc.lex THEN lex_label(shortcut[2].str) ELSE << >>

\* the inputs the transducer accepts from state q on with at most n arcs,
\* each with the product of the weights on its way
RECURSIVE AcceptedFrom(_, _, _)
AcceptedFrom(fst, q, n) ==
    (IF q \in fst.finals THEN {<<<< >>, FSSetWeight(TOPFSS)>>} ELSE {})
    \cup (IF n = 0 THEN {}
          ELSE UNION {{<<arc.instr \o rest[1],
                         FSSetWeight(FSSet_unify(arc.weight.fsset, rest[2].fsset))>> :
                          rest \in AcceptedFrom(fst, arc.dst, n - 1)} :
                      arc \in {e \in fst.arcs : e.src = q}})

Accepted(fst) == AcceptedFrom(fst, fst.initial.str, Cardinality(fst.states))

\* the text of the scenario: a state with the single path 'ab [+x]'
OnePath == <<<<"$", " ", "s">>, <<"a", "b", " ", "[", "+", "x", "]">>>>

\* C22: compile makes a chain of the declared states: the first is the
\* initial state, one state is appended after the last and is the only
\* final state, and every path of a state leads to the state after it; the
\* transducer of a state with the single path 'ab [+x]' accepts 'ab' with
\* the weight {x: True} and nothing else.
C22_LinearChain ==
    (mpc = "compiled" /\ DistinctLabels) =>
        /\ Len(mstates) = Len(DeclaredLabels) + 1
        /\ \A i \in DOMAIN DeclaredLabels : mstates[i].label = DeclaredLabels[i]
        /\ mstates[Len(mstates)].label = DFLT_FINAL
        /\ mfst.states = {mstates[i].label : i \in DOMAIN mstates}
        /\ DeclaredLabels # << >> => mfst.initial = PyStr(DeclaredLabels[1])
        /\ mfst.finals = {DFLT_FINAL}
        /\ \A i \in DOMAIN DeclaredLabels :
               \A n \in DOMAIN mstates[i].paths :
                   \E arc \in mfst.arcs :
                       ChainArc(arc, mstates[i].label, mstates[i + 1].label,
                                mstates[i].paths[n])
        /\ \A arc \in mfst.arcs :
               \E i \in DOMAIN DeclaredLabels :
                   \/ \E n \in DOMAIN mstates[i].paths :
                          ChainArc(arc, mstates[i].label, mstates[i + 1].label,
                                   mstates[i].paths[n])
                   \/ \E n \in DOMAIN mstates[i].shortcuts :
                          ShortcutArc(arc, mstates[i].label, mstates[i].shortcuts[n])
        /\ mparsed = OnePath =>
               Accepted(mfst) =
                   {<<<<"a", "b">>,
                      FSSetWeight({freeze(MkFS([k \in {"x"} |-> Atom("True")]))})>>}

\* two declared states, each with a path, have been compiled
C22_Witness ==
    /\ mpc = "compiled"
    /\ DistinctLabels
    /\ Len(DeclaredLabels) = 2
    /\ \A i \in DOMAIN DeclaredLabels : mstates[i].paths # << >>

(***************************************************************************)
(* The empty FSSet under multiplication (semiring.py, FSSet.unify)         *)
(***************************************************************************)
\* C25: the empty FSSet annihilates the multiplication of the unification
\* semiring: sx.unify(sy) is empty when sx or sy is empty.
C25_EmptyAnnihilates ==
    (spc = "unified" /\ (sx = {} \/ sy = {})) => sxy = {}

(***************************************************************************)
(* Unification of structures that agree (fs.py, simple_unify /             *)
(* unify_dicts)                                                            *)
(***************************************************************************)
\* atomic values, the strings 'fail' and 'nil' among them
AnyAtomVals == AtomVals \cup {Atom("fail")}

\* structures over these values, nested once
AnyFS ==
    {x \in FSOver(TopNames, AnyAtomVals \cup FSOver(SubNames, AnyAtomVals)) :
        SizeOf(x) <= MaxSize - 1}

\* simple_unify on two such structures
AInit ==
    /\ SIdle
    /\ HInit
    /\ XIdle
    /\ a \in AnyFS
    /\ b \in AnyFS
    /\ ab = NoResult /\ ba = NoResult /\ aa = NoResult
    /\ c = NoResult /\ abc = NoResult /\ cab = NoResult
    /\ upc = "start"

SpecUnifyAny == AInit /\ [][UNext]_vars

\* v and w are equal atoms, or structures whose values agree at every
\* feature both define
RECURSIVE Agree(_, _)
Agree(v, w) ==
    IF IsFS(v) /\ IsFS(w)
    THEN \A k \in Keys(v) \cap Keys(w) : Agree(v.feats[k], w.feats[k])
    ELSE ~IsFS(v) /\ ~IsFS(w) /\ v.atom = w.atom

\* C26: when a and b have equal values at every feature path they share,
\* whatever the atomic values are, unify(a, b) is a structure and not 'fail'.
C26_FailOnlyOnConflict ==
    (upc = "unified" /\ Agree(a, b)) => IsFS(ab)

(***************************************************************************)
(* Hash values of frozen structures (fs.py, __hash__ / _hash)              *)
(***************************************************************************)
\* 0x7fffffff
Mask31 == 2147483647

\* hash(s) of a string is fixed only within a process and may be negative
StrHashes == {-3, 5}

\* the sum _hash adds up, hash(s) being strhash[s] and each term of
\* HashTerms occurring terms[t] times in it
RECURSIVE SumOf(_, _, _)
SumOf(terms, strhash, left) ==
    IF left = {} THEN 0
    ELSE LET t == CHOOSE u \in left : TRUE
         IN  terms[t] * (IF t = "1" THEN 1 ELSE strhash[t])
             + SumOf(terms, strhash, left \ {t})

\* int(hashval & 0x7fffffff); the masks of the nested calls do not change
\* the masked sum
masked(hashval) == IF hashval >= 0 THEN hashval ELSE (Mask31 + hashval) + 1

\* FeatStruct.__hash__ of the frozen object o
__hash__(o, strhash) == masked(SumOf(hash(o), strhash, HashTerms))

\* heaps of frozen structures without type parents, and the hash values of
\* the strings in the process
KInit ==
    /\ UIdle
    /\ SIdle
    /\ IIdle
    /\ GIdle
    /\ ParseIdle
    /\ CIdle
    /\ LIdle
    /\ MIdle
    /\ NIdle
    /\ alloc = EObjs
    /\ hfeats \in [Objs -> EFeats]
    /\ \A o \in Objs \ EObjs : hfeats[o] = EmptyFeats
    /\ tset = [o \in Objs |-> o]
    /\ tsets = [o \in Objs |-> {}]
    /\ hfrozen = [o \in Objs |-> o \in EObjs]
    /\ op = "init" /\ err = "none" /\ rcv = 0 /\ res = 0 /\ steps = 0
    /\ eself = 0 /\ eother = 0 /\ eres = "none" /\ epc = "start"
    /\ kstr \in [HashTerms \ {"1"} -> StrHashes]
    /\ khash = << >>

\* eres = (self == other) and khash = <<hash(self), hash(other)>>
Hash(self, other) ==
    /\ epc = "start"
    /\ hfrozen[self] /\ hfrozen[other]
    /\ eself' = self
    /\ eother' = other
    /\ eres' = __eq__(self, other)
    /\ khash' = <<__hash__(self, kstr), __hash__(other, kstr)>>
    /\ epc' = "done"
    /\ UNCHANGED <<kstr, uvars, svars, hvars, ivars, gvars, pvars, cvars, lvars,
                   mvars, nvars>>

KNext == \E self \in EObjs, other \in EObjs : Hash(self, other)

SpecHash == KInit /\ [][KNext]_vars

\* C27: two frozen structures that are equal have the same hash value,
\* structures with cycles of different lengths included, and every hash
\* value lies in 0 .. 2^31 - 1.
C27_HashConsistent ==
    (epc = "done" /\ khash # << >>) =>
        /\ khash[1] \in 0 .. Mask31
        /\ khash[2] \in 0 .. Mask31
        /\ eres = "True" => khash[1] = khash[2]

(***************************************************************************)
(* compose with begin, end, first and last (casc.py)                       *)
(***************************************************************************)
\* C29: compose(begin, end, first, last) without a subcascade returns the
\* composition of [first] + self[begin:end] + [last], in this order, for a
\* cascade of any length, one with a single transducer included.
C29_ComposesTheSlice ==
    (cpc = "done" /\ cop.name = "compose_slice") =>
        cres = FST_compose(ComposedList(cfsts, cop.begin, cop.end, cop.first,
                                        cop.last))

(***************************************************************************)
(* Loading a language (languages.py, load_lang / get_language;             *)
(* language.py, load_data; l3/__init__.py, get_pos)                        *)
(***************************************************************************)
\* Language(...): nothing was loaded
NewLanguage == [load_attempted |-> FALSE, fsts |-> FALSE]

\* POSMorphology.load_fst for every POS: the FSTs are there afterwards
load_fst(language) == [language EXCEPT !.fsts = TRUE]

\* Language.load_morpho(): nothing is loaded when has_cas() finds no FST
load_morpho(language, avail) == IF avail THEN load_fst(language) ELSE language

\* Language.load_data(load_morph=load_morph)
load_data(language, load_morph, avail) ==
    IF language.load_attempted THEN language
    ELSE LET attempted == [language EXCEPT !.load_attempted = TRUE]
         IN  IF load_morph THEN load_morpho(attempted, avail) ELSE attempted

\* Language.get_fsts(): the list is empty unless FSTs were loaded
get_fsts(language) == language.fsts

\* the Language objects and the entry of LANGUAGES for the language
Languages(objs, entry) == [objs |-> objs, entry |-> entry]

\* load_lang(lang, load_morph=load_morph) for a language without a backup
\* language: the object of the language's module if it has one (it is
\* objs[1]), an object made from scratch otherwise
load_lang(langs, ismodule, load_morph, avail) ==
    IF ismodule
    THEN Languages([langs.objs EXCEPT ![1] = load_data(@, load_morph, avail)], 1)
    ELSE Languages(Append(langs.objs, load_data(NewLanguage, load_morph, avail)),
                   Len(langs.objs) + 1)

\* get_language(language, load=load)
get_language(langs, ismodule, load, avail) ==
    IF langs.entry = 0 \/ (load /\ ~get_fsts(langs.objs[langs.entry]))
    THEN load_lang(langs, ismodule, load, avail)
    ELSE langs

\* l3.get_pos(abbrev, pos, load_morph=load_morph)
get_pos(langs, ismodule, load_morph, avail) ==
    get_language(load_lang(langs, ismodule, load_morph, avail), ismodule,
                 load_morph, avail)

\* the package was imported: a language with a module has its object
NInit ==
    /\ UIdle
    /\ SIdle
    /\ HInit
    /\ IIdle
    /\ EIdle
    /\ ParseIdle
    /\ CIdle
    /\ GIdle
    /\ LIdle
    /\ MIdle
    /\ KIdle
    /\ nmodule \in BOOLEAN
    /\ navail \in BOOLEAN
    /\ nobjs = IF nmodule THEN <<NewLanguage>> ELSE << >>
    /\ nentry = 0
    /\ ncalls = << >>

LangFrame == UNCHANGED <<nmodule, navail, uvars, svars, hvars, ivars, evars,
                         pvars, cvars, gvars, lvars, mvars, kvars>>

Call(name, load) == [name |-> name, load |-> load]

\* load_lang(lang, load_morph=load_morph)
LoadLang(load_morph) ==
    /\ Len(ncalls) < MaxCalls
    /\ LET after == load_lang(Languages(nobjs, nentry), nmodule, load_morph, navail)
       IN  nobjs' = after.objs /\ nentry' = after.entry
    /\ ncalls' = Append(ncalls, Call("load_lang", load_morph))
    /\ LangFrame

\* get_language(lang, load=load)
GetLanguage(load) ==
    /\ Len(ncalls) < MaxCalls
    /\ LET after == get_language(Languages(nobjs, nentry), nmodule, load, navail)
       IN  nobjs' = after.objs /\ nentry' = after.entry
    /\ ncalls' = Append(ncalls, Call("get_language", load))
    /\ LangFrame

\* l3.get_pos(lang, pos, load_morph=load_morph)
GetPos(load_morph) ==
    /\ Len(ncalls) < MaxCalls
    /\ LET after == get_pos(Languages(nobjs, nentry), nmodule, load_morph, navail)
       IN  nobjs' = after.objs /\ nentry' = after.entry
    /\ ncalls' = Append(ncalls, Call("get_pos", load_morph))
    /\ LangFrame

NNext ==
    \/ \E load_morph \in BOOLEAN : LoadLang(load_morph)
    \/ \E load \in BOOLEAN : GetLanguage(load)
    \/ \E load_morph \in BOOLEAN : GetPos(load_morph)

SpecLanguages == NInit /\ [][NNext]_vars

\* C30: when get_language(lang, load=True) has just returned and the
\* language has FSTs, the language it returned has them loaded, whatever
\* calls of load_lang, get_language and get_pos came before.
C30_LoadedAfterGetLanguage ==
    (/\ ncalls # << >>
     /\ ncalls[Len(ncalls)] = Call("get_language", TRUE)
     /\ navail) => get_fsts(nobjs[nentry])

====
